---- MODULE Spec2Model ----
(***************************************************************************)
(* Profile router of AutoHotPie (services/profile_router.rs): rule         *)
(* compilation, candidate scoring, profile selection, and the shared       *)
(* router state updated by the polling task and by resolve_now.            *)
(*                                                                         *)
(* Conventions: Option<T> is a sequence of length 0 (None) or 1 (Some);    *)
(* a Rust String is a sequence of one-character strings; profile indices   *)
(* are 0-based as in the source (position k of a sequence is index k-1).   *)
(***************************************************************************)
EXTENDS Integers, Sequences, FiniteSets, TLC

VARIABLES
    store,      \* AppState.profiles: the ProfileStore owned by the settings subsystem
    window,     \* SystemState.status.window: the latest WindowSnapshot
    clock,      \* the wall clock read by OffsetDateTime::now_utc()
    current,    \* ProfileRouterState.current
    history,    \* ProfileRouterState.history
    auditLog,   \* entries written through AuditLogger::log
    events,     \* payloads emitted on PROFILE_EVENT
    pc,         \* position of each evaluation (timer tick, resolve_now)
    loc,        \* locals of each evaluation
    started,    \* number of evaluations started so far
    call,       \* direct calls of select_profile: the results returned so far
    poisoned,   \* the locks that are poisoned (a thread panicked while holding them)
    stderr,     \* the lines written by eprintln! in the polling task
    runner,     \* ActionRunner::run: the provider, the call stack, the events channel
    validation, \* validate_profile: the menus of the profile and the verdict
    disk,       \* the profile store as last persisted by StorageManager::save_profiles
    reply       \* the outcome of the last profile command

vars == <<store, window, clock, current, history, auditLog, events, pc, loc, started, call,
         poisoned, stderr, runner, validation, disk, reply>>

----------------------------------------------------------------------------
(* Bounds *)

MaxProfiles == 2    \* profiles per store when select_profile is called directly
MaxTime == 2        \* largest timestamp in a history handed to select_profile
MaxEvals == 3       \* evaluations started in one behaviour of the router
MaxClock == 1       \* largest value of the wall clock
MaxStore == 2       \* profiles in the store when profiles are created and deleted
MaxActions == 3     \* actions held by the provider of an ActionRunner
MaxChildren == 2    \* children of a composite action
MaxMenus == 4       \* menus handed to validate_profile
MaxId == 3          \* largest profile id handed out by create_profile

----------------------------------------------------------------------------
(* Option *)

None == <<>>
Some(x) == <<x>>
IsSome(o) == o # <<>>
Unwrap(o) == o[1]

U8_MAX == 255

----------------------------------------------------------------------------
(* Strings *)

IsSpace(c) == c = " "

RECURSIVE TrimStart(_)
TrimStart(s) ==
    IF s # <<>> /\ IsSpace(Head(s)) THEN TrimStart(Tail(s)) ELSE s

RECURSIVE TrimEnd(_)
TrimEnd(s) ==
    IF s # <<>> /\ IsSpace(s[Len(s)]) THEN TrimEnd(SubSeq(s, 1, Len(s) - 1)) ELSE s

Trim(s) == TrimEnd(TrimStart(s))

StartsWith(s, p) == Len(s) >= Len(p) /\ SubSeq(s, 1, Len(p)) = p

ToAsciiLower(c) ==
    CASE c = "A" -> "a"
      [] c = "B" -> "b"
      [] OTHER -> c

EqIgnoreAsciiCase(s, t) ==
    /\ Len(s) = Len(t)
    /\ \A k \in 1..Len(s) : ToAsciiLower(s[k]) = ToAsciiLower(t[k])

REGEX_PREFIX == <<"r", "e", "g", "e", "x", ":">>

(* Regex::new on the pattern syntax used here: an optional leading "^"     *)
(* followed by literal characters; an unescaped "(" opens a group that is  *)
(* never closed, which is a compile error.                                 *)
RegexNew(pattern) ==
    IF \E k \in 1..Len(pattern) : pattern[k] = "("
    THEN [ok |-> FALSE, anchored |-> FALSE, lit |-> <<>>]
    ELSE IF pattern # <<>> /\ Head(pattern) = "^"
         THEN [ok |-> TRUE, anchored |-> TRUE, lit |-> Tail(pattern)]
         ELSE [ok |-> TRUE, anchored |-> FALSE, lit |-> pattern]

(* Regex::is_match: an unanchored search, case sensitive *)
RegexIsMatch(regex, s) ==
    IF regex.anchored
    THEN StartsWith(s, regex.lit)
    ELSE \E k \in 1..(Len(s) + 1) :
            /\ k + Len(regex.lit) - 1 <= Len(s)
            /\ SubSeq(s, k, k + Len(regex.lit) - 1) = regex.lit

----------------------------------------------------------------------------
(* Rule compiler: parse_rules, parse_rule, build_text_rule,                *)
(* build_screen_area_rule                                                  *)

NoRegex == [ok |-> FALSE, anchored |-> FALSE, lit |-> <<>>]
NoArea == [x |-> 0, y |-> 0, width |-> 0, height |-> 0]

Matcher(type, value, case_sensitive, regex, area) ==
    [type |-> type, value |-> value, case_sensitive |-> case_sensitive,
     regex |-> regex, area |-> area]

Rule(target, matcher, raw) == [target |-> target, matcher |-> matcher, raw |-> raw]

build_text_rule(rule, target) ==
    IF ~IsSome(rule.value) THEN None
    ELSE
    LET raw == Trim(Unwrap(rule.value)) IN
    IF raw = <<>> THEN None
    ELSE
    LET is_regex == IF IsSome(rule.is_regex) THEN Unwrap(rule.is_regex)
                    ELSE StartsWith(raw, REGEX_PREFIX)
        case_sensitive == IF IsSome(rule.case_sensitive) THEN Unwrap(rule.case_sensitive)
                          ELSE FALSE
    IN
    IF is_regex
    THEN LET pattern == IF StartsWith(raw, REGEX_PREFIX)
                        THEN Trim(SubSeq(raw, Len(REGEX_PREFIX) + 1, Len(raw)))
                        ELSE raw
         IN IF pattern = <<>> THEN None
            ELSE LET regex == RegexNew(pattern) IN
                 IF regex.ok
                 THEN Some(Rule(target, Matcher("Regex", <<>>, FALSE, regex, NoArea), raw))
                 ELSE None
    ELSE Some(Rule(target, Matcher("Exact", raw, case_sensitive, NoRegex, NoArea), raw))

build_screen_area_rule(rule) ==
    IF ~IsSome(rule.screen_area) THEN None
    ELSE LET area == Unwrap(rule.screen_area) IN
         Some(Rule("ScreenArea",
                   Matcher("ScreenArea", <<>>, FALSE, NoRegex,
                           [x |-> area.x, y |-> area.y,
                            width |-> area.width, height |-> area.height]),
                   <<"screen_area:", ToString(area.x), "x", ToString(area.y), ":",
                     ToString(area.width), "x", ToString(area.height)>>))

parse_rule(rule) ==
    CASE rule.mode = "Always" ->
            Some(Rule("Any", Matcher("Fallback", <<>>, FALSE, NoRegex, NoArea), <<"fallback">>))
      [] rule.mode = "ProcessName" -> build_text_rule(rule, "Process")
      [] rule.mode = "WindowTitle" -> build_text_rule(rule, "WindowTitle")
      [] rule.mode = "WindowClass" -> build_text_rule(rule, "WindowClass")
      [] rule.mode = "Custom" -> build_text_rule(rule, "Any")
      [] rule.mode = "ScreenArea" -> build_screen_area_rule(rule)

(* a compiler that gives up at the first rule it cannot compile *)
RECURSIVE parse_rules_until_invalid(_)
parse_rules_until_invalid(handles) ==
    IF handles = <<>> \/ parse_rule(Head(handles)) = None THEN <<>>
    ELSE parse_rule(Head(handles)) \o parse_rules_until_invalid(Tail(handles))

RECURSIVE parse_rules(_)
parse_rules(handles) ==
    IF handles = <<>> THEN <<>>
    ELSE parse_rule(Head(handles)) \o parse_rules(Tail(handles))

----------------------------------------------------------------------------
(* Candidate scorer: Target::match_kind, Target::match_score, rule_applies, *)
(* match_rules                                                             *)

match_kind(target) ==
    CASE target = "Process" -> "ProcessName"
      [] target = "WindowTitle" -> "WindowTitle"
      [] target = "WindowClass" -> "WindowClass"
      [] target = "ScreenArea" -> "ScreenArea"
      [] target = "Any" -> "Custom"

(* a score table that ranks a screen area no higher than a process name *)
match_score_flat(target) ==
    CASE target = "ScreenArea" -> 4
      [] target = "Process" -> 4
      [] target = "WindowClass" -> 3
      [] target = "WindowTitle" -> 2
      [] target = "Any" -> 1

match_score(target) ==
    CASE target = "ScreenArea" -> 5
      [] target = "Process" -> 4
      [] target = "WindowClass" -> 3
      [] target = "WindowTitle" -> 2
      [] target = "Any" -> 1

MatchInfo(kind, score, rule, fallback) ==
    [kind |-> kind, score |-> score, rule |-> rule, fallback |-> fallback]

(* the predicate closures handed to rule_applies by match_rules *)
Predicate(matcher, candidate) ==
    IF matcher.type = "Exact"
    THEN IF matcher.case_sensitive
         THEN candidate = matcher.value
         ELSE EqIgnoreAsciiCase(candidate, matcher.value)
    ELSE RegexIsMatch(matcher.regex, candidate)

rule_applies(target, process, title, class, matcher) ==
    LET check(candidate) == IsSome(candidate) /\ Predicate(matcher, Unwrap(candidate)) IN
    CASE target = "Process" -> check(process)
      [] target = "WindowTitle" -> check(title)
      [] target = "WindowClass" -> check(class)
      [] target = "Any" -> check(process) \/ check(title) \/ check(class)
      [] target = "ScreenArea" -> FALSE

(* does one compiled rule produce a match, and which *)
RuleMatch(rule, process_name, window_title, window_class, screen_area) ==
    CASE rule.matcher.type = "Fallback" ->
            Some(MatchInfo("Fallback", match_score(rule.target), rule.raw, TRUE))
      [] rule.matcher.type \in {"Exact", "Regex"} ->
            IF rule_applies(rule.target, process_name, window_title, window_class, rule.matcher)
            THEN Some(MatchInfo(match_kind(rule.target), match_score(rule.target),
                                rule.raw, FALSE))
            ELSE None
      [] rule.matcher.type = "ScreenArea" ->
            IF /\ IsSome(screen_area)
               /\ Unwrap(screen_area).x = rule.matcher.area.x
               /\ Unwrap(screen_area).y = rule.matcher.area.y
               /\ Unwrap(screen_area).width = rule.matcher.area.width
               /\ Unwrap(screen_area).height = rule.matcher.area.height
            THEN Some(MatchInfo("ScreenArea", match_score(rule.target), rule.raw, FALSE))
            ELSE None

(* a scorer that reports the highest-scoring rule that matches *)
match_rules_best(rules, process_name, window_title, window_class, screen_area) ==
    LET m(i) == RuleMatch(rules[i], process_name, window_title, window_class, screen_area)
        hits == {i \in 1..Len(rules) : IsSome(m(i))}
    IN IF hits = {} THEN None
       ELSE m(CHOOSE i \in hits :
                 \A j \in hits : \/ Unwrap(m(i)).score > Unwrap(m(j)).score
                                 \/ Unwrap(m(i)).score = Unwrap(m(j)).score /\ i <= j)

RECURSIVE match_rules(_, _, _, _, _)
match_rules(rules, process_name, window_title, window_class, screen_area) ==
    IF rules = <<>> THEN None
    ELSE LET m == RuleMatch(Head(rules), process_name, window_title, window_class, screen_area)
         IN IF IsSome(m) THEN m
            ELSE match_rules(Tail(rules), process_name, window_title, window_class, screen_area)

----------------------------------------------------------------------------
(* Selection engine: ProfileCandidate, is_better_candidate, select_profile *)

ActiveProfileSnapshot(index, name, kind, hold_to_open, score, matched_rule, selected_at, fallback_applied) ==
    [index |-> index, name |-> name, match_kind |-> kind, hold_to_open |-> hold_to_open,
     selector_score |-> score, matched_rule |-> matched_rule,
     selected_at |-> selected_at, fallback_applied |-> fallback_applied]

ProfileCandidate(snapshot, score, last_selected, order) ==
    [snapshot |-> snapshot, score |-> score, last_selected |-> last_selected,
     order |-> order]

from_match(index, name, info, last_selected, hold_to_open) ==
    ProfileCandidate(
        ActiveProfileSnapshot(index, name, info.kind, hold_to_open, Some(info.score),
                              Some(info.rule), None, info.fallback),
        info.score, last_selected, index)

fallback_candidate(index, name, last_selected, hold_to_open) ==
    ProfileCandidate(
        ActiveProfileSnapshot(index, name, "Fallback", hold_to_open, Some(0),
                              Some(<<"fallback">>), None, TRUE),
        0, last_selected, index)

(* a comparison that ignores the history on equal scores *)
is_better_candidate_no_history(new, existing) ==
    IF ~IsSome(existing) THEN TRUE
    ELSE LET cur == Unwrap(existing) IN
         IF new.score # cur.score THEN new.score > cur.score
         ELSE new.order < cur.order

(* a comparison that prefers the older history entry on equal scores *)
is_better_candidate_oldest(new, existing) ==
    IF ~IsSome(existing) THEN TRUE
    ELSE LET cur == Unwrap(existing) IN
         IF new.score # cur.score THEN new.score > cur.score
         ELSE CASE IsSome(new.last_selected) /\ IsSome(cur.last_selected) ->
                        Unwrap(new.last_selected) < Unwrap(cur.last_selected)
                [] IsSome(new.last_selected) /\ ~IsSome(cur.last_selected) -> TRUE
                [] ~IsSome(new.last_selected) /\ IsSome(cur.last_selected) -> FALSE
                [] OTHER -> new.order < cur.order

is_better_candidate(new, existing) ==
    IF ~IsSome(existing) THEN TRUE
    ELSE LET cur == Unwrap(existing) IN
         IF new.score # cur.score THEN new.score > cur.score
         ELSE CASE IsSome(new.last_selected) /\ IsSome(cur.last_selected) ->
                        Unwrap(new.last_selected) > Unwrap(cur.last_selected)
                [] IsSome(new.last_selected) /\ ~IsSome(cur.last_selected) -> TRUE
                [] ~IsSome(new.last_selected) /\ IsSome(cur.last_selected) -> FALSE
                [] OTHER -> new.order < cur.order

(* HashMap::get(&index).copied() *)
HistoryGet(record, index) ==
    IF index \in DOMAIN record THEN Some(record[index]) ELSE None

(* the manual-override test at the head of the loop body *)
IsManual(st, record) ==
    IsSome(st.active_profile_id) /\ Unwrap(st.active_profile_id) = record.id

(* the candidate built for one evaluated profile *)
CandidateOf(window_, hist, index, record) ==
    LET rules == parse_rules(record.activation_rules)
        match_info == match_rules(rules, window_.process_name, window_.window_title,
                                  window_.window_class, window_.screen_area)
        last_selected == HistoryGet(hist, index)
    IN IF IsSome(match_info)
       THEN from_match(index, record.name, Unwrap(match_info), last_selected,
                       record.hold_to_open)
       ELSE fallback_candidate(index, record.name, last_selected, record.hold_to_open)

(* a loop body that does not skip disabled profiles *)
LoopBody_any_profile(st, window_, hist, index, acc) ==
    LET record == st.profiles[index + 1] IN
    IF IsManual(st, record)
    THEN [acc EXCEPT !.manual =
            Some(ActiveProfileSnapshot(index, record.name, "Custom", record.hold_to_open,
                                       Some(U8_MAX), Some(<<"manual override">>),
                                       None, FALSE))]
    ELSE LET candidate == CandidateOf(window_, hist, index, record) IN
         IF candidate.snapshot.match_kind = "Fallback"
         THEN [acc EXCEPT !.fallback = Some(candidate)]
         ELSE IF is_better_candidate(candidate, acc.best)
              THEN [acc EXCEPT !.best = Some(candidate)]
              ELSE acc

(* one iteration of the loop over store.profiles; acc holds best, fallback, manual *)
LoopBody(st, window_, hist, index, acc) ==
    LET record == st.profiles[index + 1] IN
    IF ~record.enabled THEN acc
    ELSE IF IsManual(st, record)
    THEN [acc EXCEPT !.manual =
            Some(ActiveProfileSnapshot(index, record.name, "Custom", record.hold_to_open,
                                       Some(U8_MAX), Some(<<"manual override">>),
                                       None, FALSE))]
    ELSE LET candidate == CandidateOf(window_, hist, index, record) IN
         IF candidate.snapshot.match_kind = "Fallback"
         THEN [acc EXCEPT !.fallback = Some(candidate)]
         ELSE IF is_better_candidate(candidate, acc.best)
              THEN [acc EXCEPT !.best = Some(candidate)]
              ELSE acc

RECURSIVE Loop(_, _, _, _, _)
Loop(st, window_, hist, index, acc) ==
    IF index >= Len(st.profiles) THEN acc
    ELSE Loop(st, window_, hist, index + 1, LoopBody(st, window_, hist, index, acc))

(* a result chain that consults the fallback candidate first *)
ResultChain_fallback_first(acc) ==
    IF IsSome(acc.fallback) THEN Some(Unwrap(acc.fallback).snapshot)
    ELSE IF IsSome(acc.best) THEN Some(Unwrap(acc.best).snapshot)
    ELSE IF IsSome(acc.manual) THEN acc.manual
    ELSE None

(* a result chain that consults the manual override last *)
ResultChain_manual_last(acc) ==
    IF IsSome(acc.best) THEN Some(Unwrap(acc.best).snapshot)
    ELSE IF IsSome(acc.fallback) THEN Some(Unwrap(acc.fallback).snapshot)
    ELSE IF IsSome(acc.manual) THEN acc.manual
    ELSE None

(* best.map(snapshot).or(manual).or_else(fallback.map(snapshot)) *)
ResultChain(acc) ==
    IF IsSome(acc.best) THEN Some(Unwrap(acc.best).snapshot)
    ELSE IF IsSome(acc.manual) THEN acc.manual
    ELSE IF IsSome(acc.fallback) THEN Some(Unwrap(acc.fallback).snapshot)
    ELSE None

select_profile(st, window_, hist) ==
    ResultChain(Loop(st, window_, hist, 0,
                     [best |-> None, fallback |-> None, manual |-> None]))

----------------------------------------------------------------------------
(* Inputs: activation rules, profiles, stores, window snapshots, histories *)

ActivationRule(mode, value, is_regex, case_sensitive, screen_area) ==
    [mode |-> mode, value |-> value, is_regex |-> is_regex,
     case_sensitive |-> case_sensitive, screen_area |-> screen_area]

make_rule(mode, value) == ActivationRule(mode, value, None, None, None)

Area1 == [x |-> 0, y |-> 0, width |-> 2, height |-> 2]
Area2 == [x |-> 1, y |-> 0, width |-> 2, height |-> 2]
AreaFlat == [x |-> 0, y |-> 0, width |-> 0, height |-> 2]

rAlways == make_rule("Always", None)
rProcess == make_rule("ProcessName", Some(<<"a">>))
rTitleRegex == make_rule("WindowTitle", Some(REGEX_PREFIX \o <<"^", "a">>))
rClass == ActivationRule("WindowClass", Some(<<" ", "a", " ">>), None, Some(TRUE), None)
rCustom == make_rule("Custom", Some(<<"b">>))
rArea == ActivationRule("ScreenArea", None, None, None, Some(Area1))
rBlank == make_rule("ProcessName", Some(<<" ">>))
rBadRegex == make_rule("WindowTitle", Some(REGEX_PREFIX \o <<"(">>))
rMissing == make_rule("WindowClass", None)
rEmpty == make_rule("Custom", Some(<<>>))
rAreaFlat == ActivationRule("ScreenArea", None, None, None, Some(AreaFlat))

(* the rule lists profiles are built from *)
RuleLists ==
    { <<>>, <<rProcess>>, <<rArea>>, <<rCustom>>, <<rTitleRegex>>, <<rClass>>,
      <<rBlank>>, <<rAlways, rProcess>>, <<rBadRegex, rTitleRegex, rArea>>,
      <<rMissing, rCustom, rEmpty>>, <<rAreaFlat>> }

Profile(id, enabled, rules) ==
    [id |-> id, name |-> <<"P", ToString(id)>>, enabled |-> enabled,
     activation_rules |-> rules, hold_to_open |-> FALSE]

(* enabled profiles over every rule list, and a disabled one *)
ProfileKinds ==
    {[enabled |-> TRUE, rules |-> r] : r \in RuleLists}
        \cup {[enabled |-> FALSE, rules |-> r] : r \in {<<rArea>>}}

DanglingId == 0

ProfileStore(profiles, active_profile_id) ==
    [profiles |-> profiles, active_profile_id |-> active_profile_id]

StoresOfLen(n) ==
    {ProfileStore([k \in 1..n |-> Profile(k, kinds[k].enabled, kinds[k].rules)], active) :
        kinds \in [1..n -> ProfileKinds],
        active \in {None} \cup {Some(id) : id \in 1..n \cup {DanglingId}}}

WindowSnapshot(process_name, window_title, window_class, screen_area) ==
    [process_name |-> process_name, window_title |-> window_title,
     window_class |-> window_class, screen_area |-> screen_area]

Windows ==
    { WindowSnapshot(None, None, None, None),
      WindowSnapshot(Some(<<"a">>), None, None, None),
      WindowSnapshot(Some(<<"A">>), Some(<<"a", "b">>), Some(<<"a">>), Some(Area1)),
      WindowSnapshot(Some(<<"b">>), Some(<<"b", "a">>), None, Some(Area2)),
      WindowSnapshot(Some(<<"a">>), Some(<<"b">>), Some(<<"A">>), Some(Area1)),
      WindowSnapshot(None, None, None, Some(AreaFlat)) }

(* every history over the indices of n profiles with timestamps 1..MaxTime *)
HistoriesOfLen(n) ==
    UNION {[keys -> 1..MaxTime] : keys \in SUBSET (0..(n - 1))}

----------------------------------------------------------------------------
(* The parts of the application next to the router, before they run        *)

(* an ActionRunner that has not been asked to run anything *)
RunnerIdle ==
    [actions |-> <<>>, phase |-> "idle", stack |-> <<>>, ret |-> None, executed |-> <<>>,
     channel |-> <<>>, result |-> None]

(* no profile has been handed to validate_profile *)
NotValidated == [profile |-> None, menus |-> <<>>, actions |-> <<>>, result |-> None]

(* profiles.json holding the store st, and whether the next write succeeds *)
Persisted(st) == [store |-> st, writable |-> TRUE, recovery |-> FALSE]

(* no profile command has returned *)
NoReply == [error |-> None]

----------------------------------------------------------------------------
(* Direct calls of select_profile on arbitrary inputs                      *)

Evaluators == {"tick", "resolve"}

IdleLocals ==
    [store |-> ProfileStore(<<>>, None), window |-> WindowSnapshot(None, None, None, None),
     index |-> 0, seen |-> <<>>, next |-> None, now |-> 0, payload |-> None, views |-> {},
     held |-> {}]

MaxCalls == 2

SelectInit ==
    /\ \E n \in 0..MaxProfiles :
          /\ store \in StoresOfLen(n)
          /\ history \in HistoriesOfLen(n)
    /\ window \in Windows
    /\ clock = 0
    /\ current = None
    /\ auditLog = <<>>
    /\ events = <<>>
    /\ pc = [e \in Evaluators |-> "idle"]
    /\ loc = [e \in Evaluators |-> IdleLocals]
    /\ started = 0
    /\ call = <<>>
    /\ poisoned = {}
    /\ stderr = <<>>
    /\ runner = RunnerIdle
    /\ validation = NotValidated
    /\ disk = Persisted(store)
    /\ reply = NoReply

(* a call that records a lookup time for the first profile in the history *)
CallSelect_recording ==
    /\ Len(call) < MaxCalls
    /\ call' = Append(call, select_profile(store, window, history))
    /\ history' = [i \in DOMAIN history \cup {0} |-> MaxTime]
    /\ UNCHANGED <<runner, validation, disk, reply, store, window, clock, current, auditLog, events, pc, loc, started, poisoned, stderr>>

(* let result = select_profile(&store, &window, &history) *)
CallSelect ==
    /\ Len(call) < MaxCalls
    /\ call' = Append(call, select_profile(store, window, history))
    /\ UNCHANGED <<runner, validation, disk, reply, store, window, clock, current, history, auditLog, events, pc, loc, started, poisoned, stderr>>

SelectNext == CallSelect

SpecSelect == SelectInit /\ [][SelectNext]_vars

----------------------------------------------------------------------------
(* Router state and the evaluation pipeline: evaluate, resolve_now,       *)
(* evaluate_from_state, update_active_profile, log_selection              *)

rTitleAny == make_rule("WindowTitle", Some(REGEX_PREFIX \o <<"a">>))

(* three profiles matching by window title with the same score, the third  *)
(* one on more titles than the first two                                   *)
StoreTie ==
    ProfileStore(<<Profile(1, TRUE, <<rTitleRegex>>), Profile(2, TRUE, <<rTitleRegex>>),
                   Profile(3, TRUE, <<rTitleAny>>)>>, None)

(* a single profile without rules, manually active *)
StoreSolo == ProfileStore(<<Profile(1, TRUE, <<>>)>>, Some(1))

RouterStores == {StoreTie, StoreSolo}

RouterWindows ==
    { WindowSnapshot(Some(<<"A">>), Some(<<"a", "b">>), Some(<<"a">>), Some(Area1)),
      WindowSnapshot(Some(<<"b">>), Some(<<"b", "a">>), None, Some(Area2)) }

(* OffsetDateTime::format(&Rfc3339) *)
format_timestamp(datetime) == [rfc3339 |-> datetime]

Init ==
    /\ store \in RouterStores
    /\ window \in RouterWindows
    /\ clock = 0
    /\ current = None
    /\ history = <<>>
    /\ auditLog = <<>>
    /\ events = <<>>
    /\ pc = [e \in Evaluators |-> "idle"]
    /\ loc = [e \in Evaluators |-> IdleLocals]
    /\ started = 0
    /\ call = <<>>
    /\ poisoned = {}
    /\ stderr = <<>>
    /\ runner = RunnerIdle
    /\ validation = NotValidated
    /\ disk = Persisted(store)
    /\ reply = NoReply

(* the locks whose poisoning evaluate and resolve_now report as an error *)
Locks == {"profiles", "status", "router"}

(* an evaluation that loses the polling task when it fails *)
Fail_terminating(e, message) ==
    /\ pc' = [pc EXCEPT ![e] = IF e = "tick" THEN "terminated" ELSE "idle"]
    /\ loc' = [loc EXCEPT ![e] = IdleLocals]
    /\ stderr' = stderr

(* the `?` on a poisoned lock: the error leaves the evaluation; the loop of *)
(* start_router prints it and waits for the next tick, resolve_now hands   *)
(* it to its caller                                                        *)
Fail(e, message) ==
    /\ pc' = [pc EXCEPT ![e] = "idle"]
    /\ loc' = [loc EXCEPT ![e] = IdleLocals]
    /\ stderr' = IF e = "tick"
                 THEN Append(stderr, <<"profile router tick failed: ", message>>)
                 ELSE stderr

(* a clone of the profile store whose guard lives on after the block *)
CloneStore_guard_kept(e) ==
    /\ pc[e] = "idle"
    /\ started < MaxEvals
    /\ started' = started + 1
    /\ IF "profiles" \in poisoned
       THEN Fail(e, "profile store state poisoned")
       ELSE /\ loc' = [loc EXCEPT ![e].store = store]
            /\ pc' = [pc EXCEPT ![e] = "store"]
            /\ stderr' = stderr
    /\ UNCHANGED <<runner, validation, disk, reply, store, window, clock, current, history, auditLog, events, call, poisoned>>

(* evaluate / resolve_now: clone the profile store under its lock; the     *)
(* guard is dropped at the end of the block                                *)
CloneStore(e) ==
    /\ pc[e] = "idle"
    /\ started < MaxEvals
    /\ started' = started + 1
    /\ IF "profiles" \in poisoned
       THEN Fail(e, "profile store state poisoned")
       ELSE /\ loc' = [loc EXCEPT ![e].store = store, ![e].held = @ \ {"profiles"}]
            /\ pc' = [pc EXCEPT ![e] = "store"]
            /\ stderr' = stderr
    /\ UNCHANGED <<runner, validation, disk, reply, store, window, clock, current, history, auditLog, events, call, poisoned>>

(* evaluate / resolve_now: clone the system status under its lock *)
CloneStatus(e) ==
    /\ pc[e] = "store"
    /\ IF "status" \in poisoned
       THEN Fail(e, "system status poisoned")
       ELSE /\ loc' = [loc EXCEPT ![e].window = window, ![e].index = 0, ![e].seen = <<>>,
                                  ![e].views = {history}, ![e].held = @ \ {"status"}]
            /\ pc' = [pc EXCEPT ![e] = "select"]
            /\ stderr' = stderr
    /\ UNCHANGED <<runner, validation, disk, reply, store, window, clock, current, history, auditLog, events, started, call,
                   poisoned>>

(* select_profile: one iteration of the loop; the history map is locked    *)
(* and read once for every profile that is evaluated                       *)
LoopStep(e) ==
    /\ pc[e] = "select"
    /\ loc[e].index < Len(loc[e].store.profiles)
    /\ LET index == loc[e].index
           record == loc[e].store.profiles[index + 1]
           last_selected == HistoryGet(history, index)
           seen == IF record.enabled /\ ~IsManual(loc[e].store, record) /\ IsSome(last_selected)
                   THEN [i \in DOMAIN loc[e].seen \cup {index} |->
                            IF i = index THEN Unwrap(last_selected) ELSE loc[e].seen[i]]
                   ELSE loc[e].seen
       IN loc' = [loc EXCEPT ![e].seen = seen, ![e].index = index + 1]
    /\ UNCHANGED <<runner, validation, disk, reply, store, window, clock, current, history, auditLog, events, pc, started, call, poisoned, stderr>>

(* select_profile returns and its arguments go out of use;                *)
(* evaluate_from_state reads the clock                                    *)
Decide(e) ==
    /\ pc[e] = "select"
    /\ loc[e].index >= Len(loc[e].store.profiles)
    /\ loc' = [loc EXCEPT ![e] =
                 [IdleLocals EXCEPT
                     !.next = select_profile(loc[e].store, loc[e].window, loc[e].seen),
                     !.now = clock]]
    /\ pc' = [pc EXCEPT ![e] = "decided"]
    /\ UNCHANGED <<runner, validation, disk, reply, store, window, clock, current, history, auditLog, events, started, call, poisoned, stderr>>

(* the position of an evaluation that has nothing to publish *)
Finished(e) == IF e = "resolve" THEN "return" ELSE "idle"

(* the locals after the history map has taken the value h: an evaluation  *)
(* that is inside select_profile has one more state of the map in views,  *)
(* the record of the states the map went through during its pass (kept    *)
(* for the properties only, the program has no such field)                *)
Observed(locals, h) ==
    [g \in Evaluators |->
        IF pc[g] = "select" THEN [locals[g] EXCEPT !.views = @ \cup {h}] ELSE locals[g]]

AfterCommit(e, payload) ==
    IF IsSome(payload)
    THEN /\ pc' = [pc EXCEPT ![e] = "committed"]
         /\ loc' = Observed([loc EXCEPT ![e].payload = payload, ![e].held = @ \ {"router"}],
                             history')
    ELSE /\ pc' = [pc EXCEPT ![e] = Finished(e)]
         /\ loc' = [loc EXCEPT ![e] = IF e = "resolve"
                                      THEN [@ EXCEPT !.held = @ \ {"router"}]
                                      ELSE IdleLocals]

(* an update that replaces current without recording the selection time *)
update_active_profile_no_upsert(e, next_profile, now) ==
    IF current # next_profile
    THEN LET updated == IF IsSome(next_profile)
                        THEN Some([Unwrap(next_profile) EXCEPT
                                      !.selected_at = Some(format_timestamp(now))])
                        ELSE None
         IN /\ history' = history
            /\ current' = updated
            /\ AfterCommit(e, Some(updated))
    ELSE /\ UNCHANGED <<current, history>>
         /\ AfterCommit(e, None)

(* update_active_profile, under the lock of the current value *)
update_active_profile(e, next_profile, now) ==
    IF current # next_profile
    THEN LET updated == IF IsSome(next_profile)
                        THEN Some([Unwrap(next_profile) EXCEPT
                                      !.selected_at = Some(format_timestamp(now))])
                        ELSE None
         IN /\ history' = IF IsSome(updated)
                          THEN [i \in DOMAIN history \cup {Unwrap(updated).index} |->
                                   IF i = Unwrap(updated).index THEN now ELSE history[i]]
                          ELSE history
            /\ current' = updated
            /\ AfterCommit(e, Some(updated))
    ELSE /\ UNCHANGED <<current, history>>
         /\ AfterCommit(e, None)

Commit(e) ==
    /\ pc[e] = "decided"
    /\ IF "router" \in poisoned
       THEN /\ Fail(e, "profile router state poisoned")
            /\ UNCHANGED <<current, history>>
       ELSE /\ update_active_profile(e, loc[e].next, loc[e].now)
            /\ stderr' = stderr
    /\ UNCHANGED <<runner, validation, disk, reply, store, window, clock, auditLog, events, started, call, poisoned>>

(* the entry log_selection hands to AuditLogger::log *)
AuditEntry(snapshot) ==
    [component |-> "profile_router",
     profile |-> [index |-> snapshot.index, name |-> snapshot.name,
                  matchKind |-> snapshot.match_kind,
                  selectorScore |-> snapshot.selector_score,
                  matchedRule |-> snapshot.matched_rule,
                  fallbackApplied |-> snapshot.fallback_applied,
                  selectedAt |-> snapshot.selected_at]]

(* a log step that loses the entry *)
LogSelection_lost(e) ==
    /\ pc[e] = "committed"
    /\ IsSome(Unwrap(loc[e].payload))
    /\ pc' = [pc EXCEPT ![e] = "logged"]
    /\ UNCHANGED <<runner, validation, disk, reply, store, window, clock, current, history, auditLog, events, loc, started, call, poisoned, stderr>>

(* evaluate_from_state: if let Some(snapshot) = payload.clone() { log_selection } *)
LogSelection(e) ==
    /\ pc[e] = "committed"
    /\ IsSome(Unwrap(loc[e].payload))
    /\ auditLog' = Append(auditLog, AuditEntry(Unwrap(Unwrap(loc[e].payload))))
    /\ pc' = [pc EXCEPT ![e] = "logged"]
    /\ UNCHANGED <<runner, validation, disk, reply, store, window, clock, current, history, events, loc, started, call, poisoned, stderr>>

(* a publisher that is handed the snapshot as selected, before it was stamped *)
Emit_unstamped(e) ==
    /\ \/ pc[e] = "logged"
       \/ pc[e] = "committed" /\ ~IsSome(Unwrap(loc[e].payload))
    /\ events' = Append(events, loc[e].next)
    /\ pc' = [pc EXCEPT ![e] = Finished(e)]
    /\ loc' = [loc EXCEPT ![e] = IF e = "resolve" THEN @ ELSE IdleLocals]
    /\ UNCHANGED <<runner, validation, disk, reply, store, window, clock, current, history, auditLog, started, call, poisoned, stderr>>

(* evaluate_from_state: on_change(payload), which emits PROFILE_EVENT *)
Emit(e) ==
    /\ \/ pc[e] = "logged"
       \/ pc[e] = "committed" /\ ~IsSome(Unwrap(loc[e].payload))
    /\ events' = Append(events, Unwrap(loc[e].payload))
    /\ pc' = [pc EXCEPT ![e] = Finished(e)]
    /\ loc' = [loc EXCEPT ![e] = IF e = "resolve" THEN @ ELSE IdleLocals]
    /\ UNCHANGED <<runner, validation, disk, reply, store, window, clock, current, history, auditLog, started, call, poisoned, stderr>>

(* resolve_now: lock the current value again and return a clone of it *)
Return(e) ==
    /\ pc[e] = "return"
    /\ IF "router" \in poisoned
       THEN Fail(e, "profile router state poisoned")
       ELSE /\ pc' = [pc EXCEPT ![e] = "idle"]
            /\ loc' = [loc EXCEPT ![e] = IdleLocals]
            /\ stderr' = stderr
    /\ UNCHANGED <<runner, validation, disk, reply, store, window, clock, current, history, auditLog, events, started, call,
                   poisoned>>

(* the system-status collaborator publishes a new window snapshot *)
ContextChange ==
    /\ \E w \in RouterWindows \ {window} : window' = w
    /\ UNCHANGED <<runner, validation, disk, reply, store, clock, current, history, auditLog, events, pc, loc, started, call, poisoned, stderr>>

(* the wall clock advances *)
ClockAdvance ==
    /\ clock < MaxClock
    /\ clock' = clock + 1
    /\ UNCHANGED <<runner, validation, disk, reply, store, window, current, history, auditLog, events, pc, loc, started, call, poisoned, stderr>>

(* the ids of the profiles of the store *)
ProfileIds == {store.profiles[k].id : k \in 1..Len(store.profiles)}

(* ProfileId::new(): an id that no profile of the store carries *)
NewProfileId ==
    1 + (CHOOSE m \in ProfileIds \cup {0} : \A i \in ProfileIds \cup {0} : i <= m)

(* store.profiles.iter().position(|item| item.profile.id == id) *)
PositionOf(st, id) ==
    CHOOSE k \in 1..Len(st.profiles) :
        st.profiles[k].id = id /\ \A j \in 1..(k - 1) : st.profiles[j].id # id

upsert_record(st, record) ==
    IF \E k \in 1..Len(st.profiles) : st.profiles[k].id = record.id
    THEN [st EXCEPT !.profiles[PositionOf(st, record.id)] = record]
    ELSE ProfileStore(Append(st.profiles, record),
                      IF st.active_profile_id = None
                      THEN Some(Append(st.profiles, record)[1].id)
                      ELSE st.active_profile_id)

(* a removal that leaves active_profile_id as it was *)
remove_record_active_kept(st, id) ==
    LET IsKept(record) == record.id # id
    IN ProfileStore(SelectSeq(st.profiles, IsKept), st.active_profile_id)

(* remove_record once the id is known to be held: retain the other records *)
(* and move active_profile_id off the removed one                          *)
remove_record(st, id) ==
    LET IsKept(record) == record.id # id
        kept == SelectSeq(st.profiles, IsKept)
    IN ProfileStore(kept,
                    IF st.active_profile_id = Some(id)
                    THEN IF kept = <<>> THEN None ELSE Some(kept[1].id)
                    ELSE st.active_profile_id)

(* a command returns an error before it has touched the store *)
Refuse(message) ==
    /\ reply' = [error |-> Some(message)]
    /\ UNCHANGED <<store, disk>>

(* with_profiles_mut after the closure returned Ok: the store behind the   *)
(* guard is already mutated when save_profiles runs, and `?` returns its   *)
(* error with the guard dropped and the mutation in place; on success the  *)
(* event with the new store is taken to reach the windows                  *)
with_profiles_mut(mutated) ==
    /\ store' = mutated
    /\ IF disk.writable
       THEN /\ disk' = [disk EXCEPT !.store = mutated, !.recovery = FALSE]
            /\ reply' = [error |-> None]
       ELSE /\ disk' = disk
            /\ reply' = [error |-> Some("failed to persist")]

create_profile ==
    /\ Len(store.profiles) < MaxStore
    /\ NewProfileId <= MaxId
    /\ IF disk.recovery THEN Refuse("profile-recovery")
       ELSE with_profiles_mut(ProfileStore(Append(store.profiles,
                                                  Profile(NewProfileId, TRUE, <<>>)),
                                           Some(NewProfileId)))
    /\ UNCHANGED <<runner, validation, window, clock, current, history, auditLog, events, pc,
                   loc, started, call, poisoned, stderr>>

(* valid: normalize_record and validate_record accept the record *)
save_profile(record, valid) ==
    /\ \/ \E k \in 1..Len(store.profiles) : store.profiles[k].id = record.id
       \/ Len(store.profiles) < MaxStore
    /\ IF disk.recovery THEN Refuse("profile-recovery")
       ELSE IF ~valid THEN Refuse("profile-validation")
       ELSE with_profiles_mut(upsert_record(store, record))
    /\ UNCHANGED <<runner, validation, window, clock, current, history, auditLog, events, pc,
                   loc, started, call, poisoned, stderr>>

delete_profile(id) ==
    /\ IF disk.recovery THEN Refuse("profile-recovery")
       ELSE IF id \notin ProfileIds THEN Refuse("profile not found")
       ELSE with_profiles_mut(remove_record(store, id))
    /\ UNCHANGED <<runner, validation, window, clock, current, history, auditLog, events, pc,
                   loc, started, call, poisoned, stderr>>

(* activate_profile up to its call of resolve_now *)
activate_profile(id) ==
    /\ IF disk.recovery THEN Refuse("profile-recovery")
       ELSE IF id \notin ProfileIds THEN Refuse("profile not found")
       ELSE with_profiles_mut([store EXCEPT !.active_profile_id = Some(id)])
    /\ UNCHANGED <<runner, validation, window, clock, current, history, auditLog, events, pc,
                   loc, started, call, poisoned, stderr>>

(* save_profile on the first record of the store with its enabled flag     *)
(* flipped: upsert_record replaces the existing record                     *)
SaveProfile ==
    /\ Len(store.profiles) >= 1
    /\ save_profile([store.profiles[1] EXCEPT !.enabled = ~@], TRUE)

(* create_profile: push the default record (enabled, no activation rules)  *)
(* and make it the active profile                                          *)
CreateProfile == create_profile

(* delete_profile of a profile of the store: drop the record; if it was    *)
(* the active profile, the first remaining profile becomes active          *)
DeleteProfile == \E id \in ProfileIds : delete_profile(id)

(* activate_profile on a profile of the store that is not the active one   *)
ActivateProfile ==
    \E id \in ProfileIds : store.active_profile_id # Some(id) /\ activate_profile(id)

Evaluation(e) ==
    \/ CloneStore(e)
    \/ CloneStatus(e)
    \/ LoopStep(e)
    \/ Decide(e)
    \/ Commit(e)
    \/ LogSelection(e)
    \/ Emit(e)
    \/ Return(e)

Next ==
    \/ \E e \in Evaluators : Evaluation(e)
    \/ ContextChange
    \/ ClockAdvance
    \/ SaveProfile

Spec == Init /\ [][Next]_vars

(* a thread panics while it holds one of the locks *)
Poison(l) ==
    /\ l \notin poisoned
    /\ poisoned' = poisoned \cup {l}
    /\ UNCHANGED <<runner, validation, disk, reply, store, window, clock, current, history, auditLog, events, pc, loc, started,
                   call, stderr>>

(* the router next to threads that may panic *)
NextFault ==
    \/ \E e \in Evaluators : Evaluation(e)
    \/ ContextChange
    \/ ClockAdvance
    \/ \E l \in Locks : Poison(l)

SpecFault == Init /\ [][NextFault]_vars

(* the mutex whose guard the next statement of evaluation e binds to a     *)
(* name: the profile store, the system status, the router's current value  *)
LockNeeded(e) ==
    IF pc[e] = "idle" THEN Some("profiles")
    ELSE IF pc[e] = "store" THEN Some("status")
    ELSE IF pc[e] = "decided" THEN Some("router")
    ELSE None

(* Mutex::lock succeeds: no other thread holds the mutex *)
Acquire(e) ==
    /\ IsSome(LockNeeded(e))
    /\ pc[e] = "idle" => started < MaxEvals
    /\ \A f \in Evaluators : Unwrap(LockNeeded(e)) \notin loc[f].held
    /\ loc' = [loc EXCEPT ![e].held = @ \cup {Unwrap(LockNeeded(e))}]
    /\ UNCHANGED <<runner, validation, disk, reply, store, window, clock, current, history, auditLog, events, pc, started, call,
                   poisoned, stderr>>

(* a step of evaluation e with the guard it needs in hand; the lock of     *)
(* resolve_now's last statement is taken and dropped within the statement  *)
LockedStep(e) ==
    /\ IsSome(LockNeeded(e)) => Unwrap(LockNeeded(e)) \in loc[e].held
    /\ pc[e] = "return" => \A f \in Evaluators : "router" \notin loc[f].held
    /\ Evaluation(e)

(* with_profiles_mut holds the profile-store lock around the mutation *)
LockedSaveProfile == SaveProfile /\ \A e \in Evaluators : "profiles" \notin loc[e].held

(* the system status is written under its lock *)
LockedContextChange == ContextChange /\ \A e \in Evaluators : "status" \notin loc[e].held

(* the router with the acquisition of its locks as steps of their own *)
NextLock ==
    \/ \E e \in Evaluators : Acquire(e)
    \/ \E e \in Evaluators : LockedStep(e)
    \/ LockedSaveProfile
    \/ LockedContextChange

SpecLock == Init /\ [][NextLock]_vars

----------------------------------------------------------------------------
(* ActionRunner: run, execute_internal, handle_outcome, publish_payload    *)

(* an id that no provider holds *)
MissingActionId == MaxActions + 1

ActionIds == 1..MaxActions

LaunchProgram(spawns) == [type |-> "LaunchProgram", spawns |-> spawns, actions |-> <<>>]
Custom == [type |-> "Custom", spawns |-> FALSE, actions |-> <<>>]
Composite(actions) == [type |-> "Composite", spawns |-> FALSE, actions |-> actions]

(* the payloads actions are built from: a program that starts, one that    *)
(* does not, an unsupported custom payload, and composites                 *)
Payloads ==
    {LaunchProgram(TRUE), LaunchProgram(FALSE), Custom}
        \cup {Composite(children) :
                 children \in UNION {[1..n -> ActionIds \cup {MissingActionId}] :
                                        n \in 0..MaxChildren}}

Action(id, payload) == [id |-> id, name |-> <<"action-", ToString(id)>>, payload |-> payload]

(* the ActionProvider handed to run *)
Providers == {[id \in ActionIds |-> Action(id, p[id])] : p \in [ActionIds -> Payloads]}

get_action(id) == IF id \in DOMAIN runner.actions THEN Some(runner.actions[id]) ELSE None

(* Result<(ActionEventStatus, Option<String>), AppError> *)
Ok(status, message) == [ok |-> TRUE, status |-> status, message |-> message]
Err(message) == [ok |-> FALSE, status |-> "Error", message |-> Some(message)]

(* one activation of execute_internal; at = 0 before visited.insert, and   *)
(* at = k while the k-th child of a composite is next                      *)
Frame(action, visited) ==
    [action |-> action, visited |-> visited, at |-> 0, skipped_messages |-> <<>>]

TopFrame == runner.stack[Len(runner.stack)]
Callers == SubSeq(runner.stack, 1, Len(runner.stack) - 1)

(* skipped_messages.join("; ") *)
RECURSIVE Join(_)
Join(messages) ==
    IF messages = <<>> THEN <<>>
    ELSE IF Len(messages) = 1 THEN messages[1]
    ELSE messages[1] \o <<"; ">> \o Join(Tail(messages))

(* the value a composite returns after its last child *)
CompositeOutcome(frame) ==
    IF frame.skipped_messages = <<>> THEN Ok("Success", None)
    ELSE Ok("Skipped",
            Some(<<"Composite action '">> \o frame.action.name
                     \o <<"' completed with skipped steps: ">>
                     \o Join(frame.skipped_messages)))

(* run: take the permit of the queue, start the timer and call             *)
(* execute_internal on the action with an empty visited set                *)
RunStart ==
    /\ runner.phase = "idle"
    /\ runner' = [runner EXCEPT !.phase = "running",
                                !.stack = <<Frame(runner.actions[1], {})>>]
    /\ UNCHANGED <<store, window, clock, current, history, auditLog, events, pc, loc, started,
                   call, poisoned, stderr, validation, disk, reply>>

(* execute_internal up to the match on the payload: the cycle test, then   *)
(* the payloads that are no composites                                     *)
Enter ==
    /\ runner.phase = "running"
    /\ runner.stack # <<>>
    /\ TopFrame.at = 0
    /\ LET action == TopFrame.action IN
       IF action.id \in TopFrame.visited
       THEN runner' = [runner EXCEPT
                          !.stack = Callers,
                          !.ret = Some(Err(<<"cycle detected while executing action ",
                                             ToString(action.id)>>))]
       ELSE CASE action.payload.type = "LaunchProgram" ->
                   runner' = [runner EXCEPT
                                 !.stack = Callers,
                                 !.executed = Append(@, action.id),
                                 !.ret = Some(IF action.payload.spawns
                                              THEN Ok("Success", None)
                                              ELSE Err(<<"failed to launch program">>))]
              [] action.payload.type = "Custom" ->
                   runner' = [runner EXCEPT
                                 !.stack = Callers,
                                 !.executed = Append(@, action.id),
                                 !.ret = Some(Ok("Skipped",
                                                 Some(<<"Action '">> \o action.name
                                                      \o <<"' skipped: custom payload '",
                                                           "noop", "' is not supported">>)))]
              [] action.payload.type = "Composite" ->
                   runner' = [runner EXCEPT
                                 !.stack[Len(runner.stack)].visited = @ \cup {action.id},
                                 !.stack[Len(runner.stack)].at = 1,
                                 !.executed = Append(@, action.id)]
    /\ UNCHANGED <<store, window, clock, current, history, auditLog, events, pc, loc, started,
                   call, poisoned, stderr, validation, disk, reply>>

(* the loop over the children of a composite: look the next child up and   *)
(* call execute_internal on it with a clone of visited, or return          *)
Iterate ==
    /\ runner.phase = "running"
    /\ runner.stack # <<>>
    /\ TopFrame.at >= 1
    /\ runner.ret = None
    /\ LET children == TopFrame.action.payload.actions IN
       IF TopFrame.at > Len(children)
       THEN runner' = [runner EXCEPT !.stack = Callers,
                                     !.ret = Some(CompositeOutcome(TopFrame))]
       ELSE LET action_id == children[TopFrame.at] IN
            IF get_action(action_id) = None
            THEN runner' = [runner EXCEPT
                               !.stack = Callers,
                               !.ret = Some(Err(<<"referenced action ", ToString(action_id),
                                                  " not found">>))]
            ELSE runner' = [runner EXCEPT
                               !.stack = Append(@, Frame(Unwrap(get_action(action_id)),
                                                         TopFrame.visited))]
    /\ UNCHANGED <<store, window, clock, current, history, auditLog, events, pc, loc, started,
                   call, poisoned, stderr, validation, disk, reply>>

(* a loop in which the children share one visited set with their parent *)
Resume_shared_visited ==
    /\ runner.phase = "running"
    /\ runner.stack # <<>>
    /\ runner.ret # None
    /\ LET returned == Unwrap(runner.ret)
           top == Len(runner.stack)
       IN IF ~returned.ok
          THEN runner' = [runner EXCEPT !.stack = Callers]
          ELSE runner' = [runner EXCEPT
                             !.stack[top].at = @ + 1,
                             !.stack[top].visited =
                                 @ \cup {TopFrame.action.payload.actions[TopFrame.at]},
                             !.stack[top].skipped_messages =
                                 IF returned.status = "Skipped" /\ IsSome(returned.message)
                                 THEN Append(@, Unwrap(returned.message))
                                 ELSE @,
                             !.ret = None]
    /\ UNCHANGED <<store, window, clock, current, history, auditLog, events, pc, loc, started,
                   call, poisoned, stderr, validation, disk, reply>>

(* the child has returned: `?` hands an error on to the caller, a skipped  *)
(* child leaves its message, and the loop goes on to the next child        *)
Resume ==
    /\ runner.phase = "running"
    /\ runner.stack # <<>>
    /\ runner.ret # None
    /\ LET returned == Unwrap(runner.ret)
           top == Len(runner.stack)
       IN IF ~returned.ok
          THEN runner' = [runner EXCEPT !.stack = Callers]
          ELSE IF returned.status = "Failure"
          THEN runner' = [runner EXCEPT
                             !.stack = Callers,
                             !.ret = Some(Err(IF IsSome(returned.message)
                                              THEN Unwrap(returned.message)
                                              ELSE <<"Composite action '">>
                                                       \o TopFrame.action.name
                                                       \o <<"' failed while executing child ",
                                                            ToString(TopFrame.action.payload.actions[TopFrame.at])>>))]
          ELSE runner' = [runner EXCEPT
                             !.stack[top].at = @ + 1,
                             !.stack[top].skipped_messages =
                                 IF returned.status = "Skipped" /\ IsSome(returned.message)
                                 THEN Append(@, Unwrap(returned.message))
                                 ELSE @,
                             !.ret = None]
    /\ UNCHANGED <<store, window, clock, current, history, auditLog, events, pc, loc, started,
                   call, poisoned, stderr, validation, disk, reply>>

ActionEventPayload(id, name, status, message, timestamp) ==
    [id |-> id, name |-> name, status |-> status, message |-> message, timestamp |-> timestamp]

(* the message handle_outcome logs and publishes *)
FinalMessage(action, status, message) ==
    IF IsSome(message) THEN Unwrap(message)
    ELSE IF status = "Success" THEN <<"Action '">> \o action.name \o <<"' executed">>
    ELSE IF status = "Skipped" THEN <<"Action '">> \o action.name \o <<"' skipped (not supported)">>
    ELSE <<"Action '">> \o action.name \o <<"' failed">>

(* execute_internal has returned to run (ret keeps what it returned):      *)
(* handle_outcome for Ok, the                                              *)
(* Failure payload for Err. logged and recorded are the outcomes of the    *)
(* two writes to the audit log (AuditLogger::log returns io::Result):      *)
(* log_info / log_warn and log_action_outcome are followed by `?`,         *)
(* log_error is not                                                        *)
Finish ==
    /\ runner.phase = "running"
    /\ runner.stack = <<>>
    /\ runner.ret # None
    /\ \E logged \in BOOLEAN, recorded \in BOOLEAN :
          LET returned == Unwrap(runner.ret)
              action == runner.actions[1]
              status == IF returned.ok THEN returned.status ELSE "Failure"
              final_message == IF returned.ok
                               THEN FinalMessage(action, status, returned.message)
                               ELSE Unwrap(returned.message)
              payload == ActionEventPayload(action.id, action.name, status,
                                            Some(final_message), clock)
              level == IF status = "Success" THEN "INFO"
                       ELSE IF status = "Skipped" THEN "WARN" ELSE "ERROR"
              line == [level |-> level, message |-> final_message]
              outcome == [level |-> "ACTION", message |-> payload]
              io_error == Err(<<"io error">>)
          IN IF status # "Failure" /\ ~logged
             THEN /\ runner' = [runner EXCEPT !.phase = "done", !.result = Some(io_error)]
                  /\ auditLog' = auditLog
             ELSE IF ~recorded
             THEN /\ runner' = [runner EXCEPT !.phase = "done", !.result = Some(io_error)]
                  /\ auditLog' = IF logged THEN Append(auditLog, line) ELSE auditLog
             ELSE /\ runner' = [runner EXCEPT
                                   !.phase = "done",
                                   !.channel = Append(@, payload),
                                   !.result = Some(IF status = "Failure"
                                                   THEN Err(final_message)
                                                   ELSE Ok(status, Some(final_message)))]
                  /\ auditLog' = (IF logged THEN Append(auditLog, line) ELSE auditLog)
                                     \o <<outcome>>
    /\ UNCHANGED <<store, window, clock, current, history, events, pc, loc, started,
                   call, poisoned, stderr, validation, disk, reply>>

NextRun ==
    \/ RunStart
    \/ Enter
    \/ Iterate
    \/ Resume
    \/ Finish

(* run on every provider over MaxActions actions *)
InitRun ==
    /\ store = StoreSolo
    /\ window = WindowSnapshot(None, None, None, None)
    /\ clock = 0
    /\ current = None
    /\ history = <<>>
    /\ auditLog = <<>>
    /\ events = <<>>
    /\ pc = [e \in Evaluators |-> "idle"]
    /\ loc = [e \in Evaluators |-> IdleLocals]
    /\ started = 0
    /\ call = <<>>
    /\ poisoned = {}
    /\ stderr = <<>>
    /\ runner \in {[RunnerIdle EXCEPT !.actions = provider] : provider \in Providers}
    /\ validation = NotValidated
    /\ disk = Persisted(store)
    /\ reply = NoReply

(* the task that runs the action is scheduled until run returns *)
SpecRun == InitRun /\ [][NextRun]_vars /\ WF_vars(NextRun)

----------------------------------------------------------------------------
(* domain/validation.rs: validate_profile *)

MIN_SLICES_PER_MENU == 2
MAX_SLICES_PER_MENU == 12
MAX_MENU_DEPTH == 3

MenuIds == 1..MaxMenus

(* ids that no menu and no action of the input carries *)
MissingMenuId == MaxMenus + 1
MissingAction == 2

PieSlice(id, label, order, action, child_menu) ==
    [id |-> id, label |-> label, order |-> order, action |-> action, child_menu |-> child_menu]

PieMenu(id, slices) == [id |-> id, slices |-> slices]

(* slices that run an action, and slices that open a child menu *)
Leaf(k) == PieSlice(k, <<"A">>, k - 1, Some(1), None)
Link(k, child) == PieSlice(k, <<"A">>, k - 1, None, Some(child))

(* the slice lists the menus of the inputs are built from: well-formed     *)
(* ones with zero, one and two child menus, and one for each error of      *)
(* validate_menu                                                           *)
SliceLists ==
    {<<Leaf(1), Leaf(2)>>}
        \cup {<<Link(1, child), Leaf(2)>> : child \in MenuIds \cup {MissingMenuId}}
        \cup {<<Link(1, c), Link(2, d)>> : <<c, d>> \in {cd \in MenuIds \X MenuIds : cd[2] = cd[1] + 1}}
        \cup {<<Leaf(1)>>,
              [k \in 1..(MAX_SLICES_PER_MENU + 1) |-> Leaf(k)],
              <<Leaf(1), PieSlice(2, <<"A">>, 0, Some(1), None)>>,
              <<Leaf(1), PieSlice(2, <<" ">>, 1, Some(1), None)>>,
              <<Leaf(1), PieSlice(2, <<"A">>, 1, Some(MissingAction), None)>>}

(* str::trim on a string of characters *)
RECURSIVE trim_start(_)
trim_start(s) == IF s # <<>> /\ Head(s) = " " THEN trim_start(Tail(s)) ELSE s

RECURSIVE trim_end(_)
trim_end(s) == IF s # <<>> /\ s[Len(s)] = " " THEN trim_end(SubSeq(s, 1, Len(s) - 1)) ELSE s

trim(s) == trim_end(trim_start(s))

(* menus.iter().map(|menu| (menu.id, menu)).collect() *)
MenuMap(menus) == [id \in {menus[k].id : k \in DOMAIN menus} |-> menus[CHOOSE k \in DOMAIN menus : menus[k].id = id /\ \A j \in DOMAIN menus : menus[j].id = id => j <= k]]

(* the errors of one slice, given the orders seen before it *)
slice_errors(menu, slice, menu_map, action_map, seen_orders) ==
    (IF trim(slice.label) = <<>>
     THEN <<[error |-> "EmptySliceLabel", menu |-> menu.id, slice |-> slice.id]>> ELSE <<>>)
    \o (IF IsSome(slice.action) /\ Unwrap(slice.action) \notin action_map
        THEN <<[error |-> "MissingAction", menu |-> menu.id, slice |-> slice.id,
                action |-> Unwrap(slice.action)]>> ELSE <<>>)
    \o (IF IsSome(slice.child_menu) /\ Unwrap(slice.child_menu) \notin DOMAIN menu_map
        THEN <<[error |-> "MissingChildMenu", menu |-> menu.id, slice |-> slice.id,
                child |-> Unwrap(slice.child_menu)]>> ELSE <<>>)
    \o (IF slice.order \in seen_orders
        THEN <<[error |-> "DuplicateSliceOrder", menu |-> menu.id, order |-> slice.order]>>
        ELSE <<>>)

RECURSIVE slices_errors(_, _, _, _, _)
slices_errors(menu, k, menu_map, action_map, seen_orders) ==
    IF k > Len(menu.slices) THEN <<>>
    ELSE slice_errors(menu, menu.slices[k], menu_map, action_map, seen_orders)
             \o slices_errors(menu, k + 1, menu_map, action_map,
                              seen_orders \cup {menu.slices[k].order})

validate_menu(menu, menu_map, action_map) ==
    LET slice_count == Len(menu.slices) IN
    slices_errors(menu, 1, menu_map, action_map, {})
        \o (IF slice_count > MAX_SLICES_PER_MENU
            THEN <<[error |-> "TooManySlices", menu |-> menu.id, count |-> slice_count,
                    max |-> MAX_SLICES_PER_MENU]>> ELSE <<>>)
        \o (IF slice_count < MIN_SLICES_PER_MENU
            THEN <<[error |-> "TooFewSlices", menu |-> menu.id, count |-> slice_count,
                    min |-> MIN_SLICES_PER_MENU]>> ELSE <<>>)

(* traverse_depth on the pair of errors and visited that it mutates *)
RECURSIVE traverse_depth(_, _, _, _)
RECURSIVE traverse_slices(_, _, _, _)
traverse_slices(slices, depth, menu_map, acc) ==
    IF slices = <<>> THEN acc
    ELSE traverse_slices(Tail(slices), depth, menu_map,
                         IF IsSome(Head(slices).child_menu)
                         THEN traverse_depth(Unwrap(Head(slices).child_menu), depth + 1,
                                             menu_map, acc)
                         ELSE acc)

traverse_depth(menu_id, depth, menu_map, acc) ==
    LET flagged == IF depth > MAX_MENU_DEPTH
                   THEN [acc EXCEPT !.errors =
                            Append(@, [error |-> "MenuDepthExceeded", menu |-> menu_id,
                                       depth |-> depth, max |-> MAX_MENU_DEPTH])]
                   ELSE acc
    IN IF menu_id \in flagged.visited THEN flagged
       ELSE LET entered == [flagged EXCEPT !.visited = @ \cup {menu_id}]
                walked == IF menu_id \in DOMAIN menu_map
                          THEN traverse_slices(menu_map[menu_id].slices, depth, menu_map, entered)
                          ELSE entered
            IN [walked EXCEPT !.visited = @ \ {menu_id}]

enforce_depth_limits(root, menu_map, errors) ==
    traverse_depth(root, 1, menu_map, [errors |-> errors, visited |-> {}]).errors

RECURSIVE menus_errors(_, _, _, _)
menus_errors(menus, k, menu_map, action_map) ==
    IF k > Len(menus) THEN <<>>
    ELSE validate_menu(menus[k], menu_map, action_map)
             \o menus_errors(menus, k + 1, menu_map, action_map)

(* Ok(()) is None, Err(errors) is Some(errors) *)
validate_profile(profile, menus, actions) ==
    LET menu_map == MenuMap(menus)
        action_map == {actions[k] : k \in DOMAIN actions}
        named == IF trim(profile.name) = <<>>
                 THEN <<[error |-> "EmptyProfileName", profile |-> profile.id]>> ELSE <<>>
        rooted == named
                      \o (IF profile.root_menu \notin DOMAIN menu_map
                          THEN <<[error |-> "MissingRootMenu", profile |-> profile.id,
                                  menu |-> profile.root_menu]>> ELSE <<>>)
        checked == rooted \o menus_errors(menus, 1, menu_map, action_map)
        errors == IF profile.root_menu \in DOMAIN menu_map
                  THEN enforce_depth_limits(profile.root_menu, menu_map, checked)
                  ELSE checked
    IN IF errors = <<>> THEN [ok |-> TRUE, errors |-> <<>>] ELSE [ok |-> FALSE, errors |-> errors]

(* one call of validate_profile on the input held in validation *)
Validate ==
    /\ validation.result = None
    /\ validation.menus # <<>>
    /\ validation' = [validation EXCEPT
                         !.result = Some(validate_profile(Unwrap(validation.profile),
                                                          validation.menus, validation.actions))]
    /\ UNCHANGED <<store, window, clock, current, history, auditLog, events, pc, loc, started,
                   call, poisoned, stderr, runner, disk, reply>>

(* validate_profile on every profile over MaxMenus menus built from        *)
(* SliceLists                                                              *)
InitValidate ==
    /\ store = StoreSolo
    /\ window = WindowSnapshot(None, None, None, None)
    /\ clock = 0
    /\ current = None
    /\ history = <<>>
    /\ auditLog = <<>>
    /\ events = <<>>
    /\ pc = [e \in Evaluators |-> "idle"]
    /\ loc = [e \in Evaluators |-> IdleLocals]
    /\ started = 0
    /\ call = <<>>
    /\ poisoned = {}
    /\ stderr = <<>>
    /\ runner = RunnerIdle
    /\ validation \in {[NotValidated EXCEPT
                           !.profile = Some([id |-> 1, name |-> named[1], root_menu |-> named[2]]),
                           !.menus = [id \in MenuIds |-> PieMenu(id, slices[id])],
                           !.actions = <<1>>] :
                          named \in {<<<<"P">>, 1>>, <<<<" ">>, 1>>, <<<<"P">>, MissingMenuId>>},
                          slices \in [MenuIds -> SliceLists]}
    /\ disk = Persisted(store)
    /\ reply = NoReply

SpecValidate == InitValidate /\ [][Validate]_vars /\ WF_vars(Validate)

(* no evaluation is in progress *)
Quiescent == \A e \in Evaluators : pc[e] = "idle"

(* evaluations that never overlap: one starts only when none is in progress *)
NextSeq ==
    \/ \E e \in Evaluators : Evaluation(e) /\ \A f \in Evaluators \ {e} : pc[f] = "idle"
    \/ ContextChange
    \/ ClockAdvance
    \/ SaveProfile

SpecSeq == Init /\ [][NextSeq]_vars

(* the router next to the profile commands of the settings window *)
NextCmd ==
    \/ \E e \in Evaluators : Evaluation(e) /\ \A f \in Evaluators \ {e} : pc[f] = "idle"
    \/ CreateProfile
    \/ SaveProfile
    \/ DeleteProfile
    \/ ActivateProfile

(* the router of a store that starts with one profile *)
InitCmd == Init /\ store = StoreSolo

SpecCmd == InitCmd /\ [][NextCmd]_vars

(* normalize_profile_store on a store whose records all hold their root    *)
(* menu: an active_profile_id that names no record moves to the first      *)
(* record, and an empty store has none                                     *)
normalize_profile_store(st) ==
    LET valid_ids == {st.profiles[k].id : k \in 1..Len(st.profiles)}
        first == IF st.profiles = <<>> THEN None ELSE Some(st.profiles[1].id)
        active == IF IsSome(st.active_profile_id)
                  THEN IF Unwrap(st.active_profile_id) \notin valid_ids
                       THEN first ELSE st.active_profile_id
                  ELSE first
    IN ProfileStore(st.profiles, IF st.profiles = <<>> THEN None ELSE active)

(* the stores load_profiles can read from the file *)
LoadedStores ==
    {ProfileStore([k \in 1..n |-> Profile(k, TRUE, <<>>)], active) :
        n \in 0..MaxStore, active \in {None} \cup {Some(id) : id \in 1..MaxId}}

(* the file of the store becomes unwritable, or writable again *)
DiskFault ==
    /\ disk' = [disk EXCEPT !.writable = ~@]
    /\ UNCHANGED <<store, reply, runner, validation, window, clock, current, history, auditLog,
                   events, pc, loc, started, call, poisoned, stderr>>

(* the profile commands of the settings window on every id and record *)
NextStore ==
    \/ create_profile
    \/ \E id \in 1..MaxId, enabled \in BOOLEAN, valid \in BOOLEAN :
          save_profile(Profile(id, enabled, <<>>), valid)
    \/ \E id \in 1..MaxId : delete_profile(id)
    \/ \E id \in 1..MaxId : activate_profile(id)
    \/ DiskFault

(* the application after setup: the store is the normalized store that was *)
(* loaded, and a recovery is pending or not                                *)
InitStore ==
    /\ store \in {normalize_profile_store(loaded) : loaded \in LoadedStores}
    /\ window = WindowSnapshot(None, None, None, None)
    /\ clock = 0
    /\ current = None
    /\ history = <<>>
    /\ auditLog = <<>>
    /\ events = <<>>
    /\ pc = [e \in Evaluators |-> "idle"]
    /\ loc = [e \in Evaluators |-> IdleLocals]
    /\ started = 0
    /\ call = <<>>
    /\ poisoned = {}
    /\ stderr = <<>>
    /\ runner = RunnerIdle
    /\ validation = NotValidated
    /\ disk \in {[Persisted(store) EXCEPT !.recovery = pending] : pending \in BOOLEAN}
    /\ reply = NoReply

SpecStore == InitStore /\ [][NextStore]_vars

----------------------------------------------------------------------------
(* Vocabulary of the properties of select_profile                          *)

Positions == 1..Len(store.profiles)

(* the compiled rules of the profile at position k *)
CompiledRules(k) == parse_rules(store.profiles[k].activation_rules)

(* what the candidate scorer answers for the profile at position k *)
FirstMatch(k) ==
    match_rules(CompiledRules(k), window.process_name, window.window_title,
                window.window_class, window.screen_area)

Enabled(k) == store.profiles[k].enabled

(* the enabled profile at position k matches by a rule of the given kind *)
MatchesAs(k, kind) ==
    Enabled(k) /\ IsSome(FirstMatch(k)) /\ Unwrap(FirstMatch(k)).kind = kind

(* the enabled profile at position k produces a genuine (non-fallback) rule match *)
GenuineMatch(k) ==
    Enabled(k) /\ IsSome(FirstMatch(k)) /\ Unwrap(FirstMatch(k)).kind # "Fallback"

(* the enabled profile named by active_profile_id *)
ManualAt(k) == Enabled(k) /\ IsManual(store, store.profiles[k])

(* the profiles whose rules the selection loop evaluates *)
Evaluated(k) == Enabled(k) /\ ~IsManual(store, store.profiles[k])

RuleBased(k) == Evaluated(k) /\ GenuineMatch(k)

ScoreOf(k) == Unwrap(FirstMatch(k)).score

(* the results of the calls made so far *)
Returned == {call[c] : c \in 1..Len(call)}

ReturnsPosition(result, k) == IsSome(result) /\ Unwrap(result).index = k - 1

----------------------------------------------------------------------------
(* C2: when an enabled profile's first matching rule is a ScreenArea rule  *)
(* and another enabled profile's first matching rule is a ProcessName      *)
(* rule, select_profile returns a profile matching by ScreenArea, whatever *)
(* the declaration order, the history and active_profile_id.  (Original    *)
(* statement; the code violates it when active_profile_id names the        *)
(* ScreenArea profile.)                                                    *)
C2_ScreenAreaOutranksProcess_Original ==
    \A result \in Returned :
        (/\ \E p \in Positions : MatchesAs(p, "ScreenArea")
         /\ \E q \in Positions : MatchesAs(q, "ProcessName"))
        => \E p \in Positions : MatchesAs(p, "ScreenArea") /\ ReturnsPosition(result, p)

(* C2: amended.  When an enabled profile other than the one named by       *)
(* active_profile_id has a ScreenArea rule as its first matching rule and  *)
(* another enabled profile has a ProcessName rule as its first matching    *)
(* rule, select_profile returns a profile matching by ScreenArea, with     *)
(* match_kind ScreenArea and score 5, for every declaration order and      *)
(* every history.                                                          *)
C2_ScreenAreaOutranksProcess ==
    \A result \in Returned :
        (/\ \E p \in Positions : Evaluated(p) /\ MatchesAs(p, "ScreenArea")
         /\ \E q \in Positions : MatchesAs(q, "ProcessName"))
        => /\ \E p \in Positions :
                Evaluated(p) /\ MatchesAs(p, "ScreenArea") /\ ReturnsPosition(result, p)
           /\ Unwrap(result).match_kind = "ScreenArea"
           /\ Unwrap(result).selector_score = Some(5)

(* a ScreenArea profile declared after a ProcessName profile that has the  *)
(* only history entry, and is returned all the same                        *)
C2_Witness ==
    /\ Len(call) >= 1
    /\ Len(store.profiles) = 2
    /\ Evaluated(1) /\ MatchesAs(1, "ProcessName")
    /\ Evaluated(2) /\ MatchesAs(2, "ScreenArea")
    /\ DOMAIN history = {0}
    /\ ReturnsPosition(call[1], 2)

----------------------------------------------------------------------------
(* the rule-based candidates with the highest score *)
TopScore(k) == \A j \in Positions : RuleBased(j) => ScoreOf(j) <= ScoreOf(k)
Top == {k \in Positions : RuleBased(k) /\ TopScore(k)}
TopWithHistory == {k \in Top : (k - 1) \in DOMAIN history}

----------------------------------------------------------------------------
----------------------------------------------------------------------------
(* the profiles that become fallback candidates in the loop *)
FallbackCandidates == {k \in Positions : Evaluated(k) /\ ~GenuineMatch(k)}

ManualSnapshot(k) ==
    ActiveProfileSnapshot(k - 1, store.profiles[k].name, "Custom",
                          store.profiles[k].hold_to_open, Some(U8_MAX),
                          Some(<<"manual override">>), None, FALSE)

(* C6: original statement.  select_profile returns the best rule-based     *)
(* candidate if one exists; otherwise a fallback candidate if one exists;  *)
(* otherwise a Fallback-kind snapshot for the enabled profile named by     *)
(* active_profile_id; otherwise None.                                      *)
C6_ResultPrecedence_Original ==
    \A result \in Returned :
        IF \E k \in Positions : RuleBased(k)
        THEN \E k \in Positions : RuleBased(k) /\ ReturnsPosition(result, k)
        ELSE IF FallbackCandidates # {}
        THEN /\ \E k \in FallbackCandidates : ReturnsPosition(result, k)
             /\ Unwrap(result).match_kind = "Fallback"
        ELSE IF \E k \in Positions : ManualAt(k)
        THEN /\ \E k \in Positions : ManualAt(k) /\ ReturnsPosition(result, k)
             /\ Unwrap(result).match_kind = "Fallback"
        ELSE result = None

(* C6: amended.  select_profile returns a rule-based candidate if one      *)
(* exists; otherwise, if active_profile_id names an enabled profile, the   *)
(* manual-override snapshot of that profile (match_kind Custom, score 255, *)
(* matched_rule "manual override", fallback_applied false); otherwise a    *)
(* fallback candidate, as Fallback, if one exists; otherwise None.         *)
C6_ResultPrecedence ==
    \A result \in Returned :
        IF \E k \in Positions : RuleBased(k)
        THEN \E k \in Positions :
                /\ RuleBased(k)
                /\ ReturnsPosition(result, k)
                /\ Unwrap(result).match_kind = Unwrap(FirstMatch(k)).kind
        ELSE IF \E k \in Positions : ManualAt(k)
        THEN \E k \in Positions : ManualAt(k) /\ result = Some(ManualSnapshot(k))
        ELSE IF FallbackCandidates # {}
        THEN /\ \E k \in FallbackCandidates : ReturnsPosition(result, k)
             /\ Unwrap(result).match_kind = "Fallback"
        ELSE result = None

(* the manually activated profile is returned as Custom although a         *)
(* fallback candidate is available                                         *)
C6_Witness ==
    /\ Len(call) >= 1
    /\ ~ \E k \in Positions : RuleBased(k)
    /\ FallbackCandidates # {}
    /\ \E k \in Positions : ManualAt(k) /\ call[1] = Some(ManualSnapshot(k))

----------------------------------------------------------------------------
ScoreTable(kind) ==
    CASE kind = "ScreenArea" -> 5
      [] kind = "ProcessName" -> 4
      [] kind = "WindowClass" -> 3
      [] kind = "WindowTitle" -> 2
      [] kind = "Custom" -> 1
      [] kind = "Fallback" -> 0

(* C9: every snapshot returned by select_profile carries the               *)
(* selector_score fixed by its match_kind: ScreenArea=5, ProcessName=4,    *)
(* WindowClass=3, WindowTitle=2, Custom=1, Fallback=0.                     *)
C9_ScoreTable ==
    \A result \in Returned :
        IsSome(result) =>
            Unwrap(result).selector_score = Some(ScoreTable(Unwrap(result).match_kind))

----------------------------------------------------------------------------
----------------------------------------------------------------------------
(* Vocabulary of the properties of the evaluation pipeline                 *)

(* equality of two optional snapshots in every field other than selected_at *)
ValueEqual(a, b) ==
    IF IsSome(a) /\ IsSome(b)
    THEN [Unwrap(a) EXCEPT !.selected_at = None] = [Unwrap(b) EXCEPT !.selected_at = None]
    ELSE a = b

(* evaluation e takes its compare-and-commit step *)
CommitStep(e) == pc[e] = "decided" /\ pc'[e] # "decided"

(* evaluation e leaves the point after a commit (it logs or it publishes) *)
LeavesCommitted(e) == pc[e] = "committed" /\ pc'[e] # "committed"

(* evaluation e finishes select_profile on the inputs it has read *)
DecideStep(e) == pc[e] = "select" /\ pc'[e] = "decided"

(* C1: whenever the result of an evaluation equals the stored current      *)
(* snapshot in every field other than selected_at, the compare-and-commit  *)
(* step changes neither current nor history and the evaluation has nothing *)
(* to log or publish.                                                      *)
C1_IdempotentUpdate ==
    [][\A e \in Evaluators :
          (CommitStep(e) /\ ValueEqual(loc[e].next, current))
              => /\ current' = current
                 /\ history' = history
                 /\ pc'[e] = Finished(e)]_vars

----------------------------------------------------------------------------
(* the view an evaluation has of the profile at position k of its store *)
LEnabled(e, k) == loc[e].store.profiles[k].enabled
LEvaluated(e, k) == LEnabled(e, k) /\ ~IsManual(loc[e].store, loc[e].store.profiles[k])
LFirstMatch(e, k) ==
    match_rules(parse_rules(loc[e].store.profiles[k].activation_rules),
                loc[e].window.process_name, loc[e].window.window_title,
                loc[e].window.window_class, loc[e].window.screen_area)
LRuleBased(e, k) ==
    LEvaluated(e, k) /\ IsSome(LFirstMatch(e, k)) /\ Unwrap(LFirstMatch(e, k)).kind # "Fallback"
LScore(e, k) == Unwrap(LFirstMatch(e, k)).score
LPositions(e) == 1..Len(loc[e].store.profiles)
LOutscored(e, k) == \E j \in LPositions(e) : LRuleBased(e, j) /\ LScore(e, j) > LScore(e, k)
Selects(e, k) == IsSome(loc'[e].next) /\ Unwrap(loc'[e].next).index = k - 1

(* C3: original statement.  P and Q have the same rules, Q is declared     *)
(* after P and is never edited, so P's history entry stems from a tie won  *)
(* against Q.  Every later evaluation in which both match selects P,       *)
(* unless a profile matches with a strictly higher score or Q has a more   *)
(* recent history entry than P.                                            *)
C3_TieStability_Original ==
    [][\A e \in Evaluators : DecideStep(e) =>
          \A p, q \in LPositions(e) :
              (/\ p < q
               /\ loc[e].store.profiles[p].activation_rules
                      = loc[e].store.profiles[q].activation_rules
               /\ LRuleBased(e, p) /\ LRuleBased(e, q)
               /\ (p - 1) \in DOMAIN loc[e].seen
               /\ ~LOutscored(e, p)
               /\ ~((q - 1) \in DOMAIN loc[e].seen /\ loc[e].seen[q - 1] > loc[e].seen[p - 1]))
              => Selects(e, p)]_vars

(* C3: amended.  Once P has a history entry (it has been committed as      *)
(* current), every evaluation that reads that entry and in which P is a    *)
(* rule-based candidate selects P again, unless a profile matches with a   *)
(* strictly higher score or another profile matching with P's score (Q or  *)
(* a third profile) has a history entry at least as recent as P's.         *)
C3_TieStability ==
    [][\A e \in Evaluators : DecideStep(e) =>
          \A p \in LPositions(e) :
              (/\ LRuleBased(e, p)
               /\ (p - 1) \in DOMAIN loc[e].seen
               /\ ~LOutscored(e, p)
               /\ \A r \in LPositions(e) \ {p} :
                     (LRuleBased(e, r) /\ LScore(e, r) = LScore(e, p))
                         => \/ (r - 1) \notin DOMAIN loc[e].seen
                            \/ loc[e].seen[r - 1] < loc[e].seen[p - 1])
              => Selects(e, p)]_vars

(* an evaluation has read the history entry of the second profile, which   *)
(* ties with the first and the third, neither of which has an entry, and   *)
(* is about to select the second again                                     *)
C3_Witness ==
    \E e \in Evaluators :
        /\ pc[e] = "select"
        /\ loc[e].index = 3
        /\ LRuleBased(e, 1) /\ LRuleBased(e, 2) /\ LRuleBased(e, 3)
        /\ DOMAIN loc[e].seen = {1}
        /\ IsSome(current) /\ Unwrap(current).index = 1
        /\ select_profile(loc[e].store, loc[e].window, loc[e].seen) = 
              Some([Unwrap(current) EXCEPT !.selected_at = None])

----------------------------------------------------------------------------
(* evaluation e hands its payload to the event publisher *)
PublishStep(e) == pc[e] \in {"committed", "logged"} /\ pc'[e] = Finished(e)

----------------------------------------------------------------------------
----------------------------------------------------------------------------
(* evaluation e, past its first lock, hits a poisoned lock and returns the *)
(* error                                                                   *)
FailStep(e) ==
    \/ pc[e] = "store" /\ pc'[e] # "store" /\ "status" \in poisoned
    \/ pc[e] = "decided" /\ pc'[e] # "decided" /\ "router" \in poisoned

(* an evaluation starts and finds the lock of the profile store poisoned *)
FailedStart == started' # started /\ "profiles" \in poisoned

(* C11: a tick that finds the profile-store, system-status or router-state *)
(* lock poisoned writes one line to stderr and nothing else: current,      *)
(* history, the audit log and the events are unchanged and the polling     *)
(* task is back at the head of its loop, where the next tick can start;    *)
(* the polling task is never in another position than those of a tick.     *)
C11_PollingSurvives ==
    /\ [][/\ FailStep("tick") =>
                /\ pc'["tick"] = "idle"
                /\ Len(stderr') = Len(stderr) + 1
                /\ UNCHANGED <<current, history, auditLog, events, store, window>>
          /\ FailedStart =>
                /\ pc' = pc
                /\ Len(stderr') \in {Len(stderr), Len(stderr) + 1}
                /\ UNCHANGED <<current, history, auditLog, events, store, window>>
          /\ stderr' # stderr =>
                /\ FailStep("tick") \/ (FailedStart /\ pc["tick"] = "idle")
                /\ SubSeq(stderr', 1, Len(stderr)) = stderr]_vars
    /\ [](pc["tick"] \in {"idle", "store", "select", "decided", "committed", "logged"})
    /\ []((pc["tick"] = "idle" /\ started < MaxEvals) => ENABLED CloneStore("tick"))

(* three ticks have failed, one on each lock, and the polling task is at   *)
(* the head of its loop                                                    *)
C11_Witness ==
    /\ pc["tick"] = "idle"
    /\ Len(stderr) = 3
    /\ {stderr[k][2] : k \in 1..3} =
          {"profile store state poisoned", "system status poisoned",
           "profile router state poisoned"}

----------------------------------------------------------------------------
(* a selection result stamped with the time of its commit *)
Stamped(next, now) ==
    IF IsSome(next)
    THEN Some([Unwrap(next) EXCEPT !.selected_at = Some(format_timestamp(now))])
    ELSE None

(* resolve_now locks the current value again and returns it *)
ReturnStep(e) == pc[e] = "return" /\ pc'[e] = "idle"

(* C12: the compare-and-commit step of resolve_now is the one of a timer   *)
(* tick (it stores the stamped result exactly when the result differs from *)
(* current), and the snapshot resolve_now returns equals, in every field   *)
(* other than selected_at, the result select_profile gave this call on the *)
(* profile store and the window snapshot the call itself read, also when a *)
(* timer tick runs concurrently.                                           *)
C12_AuthoritativeResolve ==
    [][/\ \A e \in Evaluators : CommitStep(e) =>
             current' = IF current # loc[e].next
                        THEN Stamped(loc[e].next, loc[e].now)
                        ELSE current
       /\ ReturnStep("resolve") => ValueEqual(current, loc["resolve"].next)]_vars

----------------------------------------------------------------------------
(* C13: every snapshot select_profile returns has an index below the       *)
(* number of profiles of the store, carries the name of the profile at     *)
(* that index, and that profile is enabled, whatever active_profile_id     *)
(* names (an enabled, a disabled or a deleted profile, or nothing); when   *)
(* no profile of the store is enabled the result is None.                  *)
C13_OnlyEnabledSelectable ==
    \A result \in Returned :
        /\ IsSome(result) =>
              /\ Unwrap(result).index < Len(store.profiles)
              /\ Unwrap(result).name = store.profiles[Unwrap(result).index + 1].name
              /\ store.profiles[Unwrap(result).index + 1].enabled
        /\ (\A k \in Positions : ~Enabled(k)) => result = None

(* active_profile_id names a disabled profile whose rule matches the       *)
(* context, and the other, enabled profile is returned                     *)
C13_Witness ==
    /\ Len(call) >= 1
    /\ IsSome(call[1])
    /\ \E k \in Positions :
          /\ ~Enabled(k)
          /\ IsManual(store, store.profiles[k])
          /\ IsSome(FirstMatch(k))
          /\ ~ReturnsPosition(call[1], k)

----------------------------------------------------------------------------
(* the matcher of the compiled rule succeeds on the window snapshot *)
Succeeds(rule) ==
    CASE rule.matcher.type = "Fallback" -> TRUE
      [] rule.matcher.type \in {"Exact", "Regex"} ->
            rule_applies(rule.target, window.process_name, window.window_title,
                         window.window_class, rule.matcher)
      [] rule.matcher.type = "ScreenArea" ->
            IsSome(window.screen_area) /\ Unwrap(window.screen_area) = rule.matcher.area

(* the positions of the compiled rules of profile k that succeed *)
Hits(k) == {i \in 1..Len(CompiledRules(k)) : Succeeds(CompiledRules(k)[i])}

(* the lowest-position compiled rule of profile k that succeeds *)
FirstHit(k) == CompiledRules(k)[CHOOSE i \in Hits(k) : \A j \in Hits(k) : i <= j]

(* C14: match_rules answers None when no compiled rule of the profile      *)
(* succeeds, and otherwise with the lowest-position compiled rule that     *)
(* succeeds: the kind and score of that rule's target (kind Fallback for   *)
(* an Always rule, which succeeds unconditionally) and its text, whatever  *)
(* the rules after it would score; a snapshot returned for a profile whose *)
(* rules were evaluated carries that kind, score and matched_rule.         *)
C14_FirstMatchWins ==
    \A k \in Positions :
        /\ Hits(k) = {} <=> FirstMatch(k) = None
        /\ Hits(k) # {} =>
              /\ Unwrap(FirstMatch(k)).kind =
                     IF FirstHit(k).matcher.type = "Fallback" THEN "Fallback"
                     ELSE match_kind(FirstHit(k).target)
              /\ Unwrap(FirstMatch(k)).score = match_score(FirstHit(k).target)
              /\ Unwrap(FirstMatch(k)).rule = FirstHit(k).raw
              /\ \A result \in Returned :
                    (ReturnsPosition(result, k) /\ Evaluated(k)) =>
                        /\ Unwrap(result).match_kind = Unwrap(FirstMatch(k)).kind
                        /\ Unwrap(result).selector_score = Some(Unwrap(FirstMatch(k)).score)
                        /\ Unwrap(result).matched_rule = Some(FirstHit(k).raw)

(* a profile is returned by its first matching rule, a window-title rule,  *)
(* although a later rule of the same profile, a screen-area rule, matches  *)
(* with a higher score                                                     *)
C14_Witness ==
    /\ Len(call) >= 1
    /\ \E k \in Positions :
          /\ ReturnsPosition(call[1], k)
          /\ Evaluated(k)
          /\ Unwrap(call[1]).match_kind = "WindowTitle"
          /\ \E j \in Hits(k) : match_score(CompiledRules(k)[j].target)
                                     > Unwrap(Unwrap(call[1]).selector_score)

----------------------------------------------------------------------------
(* C15: a Fallback-kind result of select_profile always refers to a        *)
(* profile with zero usable compiled rules or to a profile whose first     *)
(* matching rule is an Always rule; a profile that has usable compiled     *)
(* rules none of which matches is never returned as a fallback.            *)
C15_NoFallbackForUnmatchedRules ==
    \A result \in Returned :
        \A k \in Positions :
            (ReturnsPosition(result, k) /\ Unwrap(result).match_kind = "Fallback")
                => \/ CompiledRules(k) = <<>>
                   \/ Hits(k) # {} /\ FirstHit(k).matcher.type = "Fallback"

----------------------------------------------------------------------------
(* C16: when no enabled profile produces a rule-based match and            *)
(* active_profile_id names no enabled profile, select_profile returns the  *)
(* fallback candidate with the lowest declaration index.                   *)
C16_FirstFallbackWins ==
    \A result \in Returned :
        (/\ ~ \E k \in Positions : RuleBased(k)
         /\ ~ \E k \in Positions : ManualAt(k)
         /\ FallbackCandidates # {})
            => ReturnsPosition(result,
                               CHOOSE k \in FallbackCandidates :
                                   \A j \in FallbackCandidates : k <= j)

----------------------------------------------------------------------------
(* C17: when the compare-and-commit step of an evaluation finds its result *)
(* next different from current and next is Some(p), then after the step    *)
(* current is p with selected_at set to the RFC3339 form of now,           *)
(* history[p.index] is now and every other history entry is as before;     *)
(* when next is None, current is None after the step and the history map   *)
(* is unchanged.                                                           *)
C17_CommittedChange ==
    [][\A e \in Evaluators :
          (CommitStep(e) /\ current # loc[e].next) =>
              IF IsSome(loc[e].next)
              THEN LET p == Unwrap(loc[e].next) IN
                   /\ current' = Some([p EXCEPT
                                          !.selected_at = Some(format_timestamp(loc[e].now))])
                   /\ DOMAIN history' = DOMAIN history \cup {p.index}
                   /\ history'[p.index] = loc[e].now
                   /\ \A i \in DOMAIN history \ {p.index} : history'[i] = history[i]
              ELSE /\ current' = None
                   /\ history' = history]_vars

(* a second profile has been committed at a later time than the first: its *)
(* entry and its stamp carry the later time, the entry of the first is     *)
(* as it was                                                               *)
C17_Witness ==
    /\ IsSome(current)
    /\ Unwrap(current).selected_at = Some(format_timestamp(1))
    /\ Unwrap(current).index \in DOMAIN history
    /\ history[Unwrap(current).index] = 1
    /\ \E i \in DOMAIN history \ {Unwrap(current).index} : history[i] = 0

----------------------------------------------------------------------------
(* C18: selection history shape. Over evaluations interleaved with the     *)
(* create, save, delete and activate commands, the key set of the history  *)
(* map never shrinks, a key is added only in the step that commits that    *)
(* index as current, the number of keys never exceeds the number of        *)
(* profiles in the store, and every key is the index of an existing        *)
(* profile.                                                                *)
C18_HistoryShape ==
    /\ [][/\ DOMAIN history \subseteq DOMAIN history'
          /\ \A i \in DOMAIN history' \ DOMAIN history :
                /\ \E e \in Evaluators : CommitStep(e)
                /\ IsSome(current')
                /\ Unwrap(current').index = i]_vars
    /\ [](/\ Cardinality(DOMAIN history) <= Len(store.profiles)
          /\ \A i \in DOMAIN history : i < Len(store.profiles))

----------------------------------------------------------------------------
(* C19: consistent history view. Within a single select_profile pass the   *)
(* last_selected values used for all candidates come from one state of the *)
(* history map that existed at a single instant of the pass: a commit by a *)
(* concurrent evaluation is never visible for some profiles of the pass    *)
(* and invisible for others.                                               *)
C19_ConsistentHistoryView ==
    [][\A e \in Evaluators :
          DecideStep(e) =>
              \E h \in loc[e].views :
                 \A k \in LPositions(e) :
                    LEvaluated(e, k) => HistoryGet(h, k - 1) = HistoryGet(loc[e].seen, k - 1)]_vars

----------------------------------------------------------------------------
(* evaluation f has taken its compare-and-commit step and is still in      *)
(* progress                                                                *)
HasCommitted(f) == pc[f] \in {"committed", "logged", "return"}

(* evaluation e commits second in a race: the other evaluation has         *)
(* committed and has not finished                                          *)
CommitsSecond(e) == CommitStep(e) /\ \E f \in Evaluators \ {e} : HasCommitted(f)

(* C20: safe race between a timer tick and a resolve_now call. The         *)
(* compare-and-commit step is atomic: the evaluation that commits second   *)
(* compares its result with the value committed by the first; if the two   *)
(* are value-equal it changes nothing and publishes nothing, otherwise it  *)
(* replaces the value; current changes in no other step, so after both     *)
(* finish it equals the result of the evaluation that committed last.      *)
C20_SafeRace ==
    [][/\ \A e \in Evaluators :
             CommitsSecond(e) =>
                 IF ValueEqual(loc[e].next, current)
                 THEN /\ current' = current
                      /\ history' = history
                      /\ pc'[e] = Finished(e)
                 ELSE /\ current' # current
                      /\ pc'[e] = "committed"
       /\ \A e \in Evaluators : CommitStep(e) => ValueEqual(current', loc[e].next)
       /\ current' # current => \E e \in Evaluators : CommitStep(e)]_vars

----------------------------------------------------------------------------
(* C21: lock discipline of the router. While an evaluation compiles and    *)
(* matches rules it holds neither the profile-store lock nor the           *)
(* system-status lock nor the mutex of the current value; the              *)
(* profile-store lock is never held together with the router's mutex; and  *)
(* no step of an evaluation modifies the profile store.                    *)
C21_LockDiscipline ==
    /\ [](\A e \in Evaluators :
            pc[e] = "select" => loc[e].held \cap {"profiles", "status", "router"} = {})
    /\ [](\A e \in Evaluators : ~({"profiles", "router"} \subseteq loc[e].held))
    /\ [][(\E e \in Evaluators : pc'[e] # pc[e] \/ loc'[e] # loc[e]) => store' = store]_vars

(* one evaluation is in the middle of matching while the other holds the   *)
(* mutex of the current value for its compare-and-commit step              *)
C21_Witness ==
    \E e \in Evaluators :
       /\ pc[e] = "select"
       /\ loc[e].index > 0
       /\ \E f \in Evaluators \ {e} : pc[f] = "decided" /\ "router" \in loc[f].held

----------------------------------------------------------------------------
(* a text rule whose value is missing, empty or whitespace-only, or whose  *)
(* regex does not compile                                                  *)
IsTextRule(rule) == rule.mode \in {"ProcessName", "WindowTitle", "WindowClass", "Custom"}

AsRegex(rule) ==
    IF IsSome(rule.is_regex) THEN Unwrap(rule.is_regex)
    ELSE StartsWith(Trim(Unwrap(rule.value)), REGEX_PREFIX)

PatternOf(rule) ==
    LET raw == Trim(Unwrap(rule.value))
    IN IF StartsWith(raw, REGEX_PREFIX) THEN Trim(SubSeq(raw, Len(REGEX_PREFIX) + 1, Len(raw)))
       ELSE raw

InvalidRule(rule) ==
    /\ IsTextRule(rule)
    /\ \/ ~IsSome(rule.value)
       \/ Trim(Unwrap(rule.value)) = <<>>
       \/ AsRegex(rule) /\ ~RegexNew(PatternOf(rule)).ok

(* the store with exactly the invalid rules removed *)
ValidRule(rule) == ~InvalidRule(rule)

Stripped(st) ==
    [st EXCEPT !.profiles =
        [k \in 1..Len(st.profiles) |->
            [st.profiles[k] EXCEPT !.activation_rules = SelectSeq(@, ValidRule)]]]

(* C22: invalid rules are equivalent to absent rules. An invalid text rule *)
(* yields no compiled rule, and select_profile on a store containing such  *)
(* rules returns what it returns on the store with exactly those rules     *)
(* removed.                                                                *)
C22_InvalidRulesAbsent ==
    /\ \A k \in Positions : \A i \in 1..Len(store.profiles[k].activation_rules) :
          InvalidRule(store.profiles[k].activation_rules[i])
              => parse_rule(store.profiles[k].activation_rules[i]) = None
    /\ \A c \in 1..Len(call) : call[c] = select_profile(Stripped(store), window, history)

(* select_profile has returned a profile on a rule that stands behind an   *)
(* invalid rule of its list                                                *)
C22_Witness ==
    /\ Len(call) > 0
    /\ \E k \in Positions :
          /\ ReturnsPosition(call[1], k)
          /\ RuleBased(k)
          /\ InvalidRule(store.profiles[k].activation_rules[1])

----------------------------------------------------------------------------
(* the ScreenArea rules of the profile at position k that carry a rectangle *)
AreaRules(k) ==
    {store.profiles[k].activation_rules[i] : i \in 1..Len(store.profiles[k].activation_rules)}
        \cap {ActivationRule("ScreenArea", None, None, None, Some(a)) :
                  a \in {Area1, Area2, AreaFlat}}

Degenerate(area) == area.width <= 0 \/ area.height <= 0

(* the rule, compiled on its own, matches the window *)
MatchesAlone(rule) ==
    IsSome(match_rules(parse_rules(<<rule>>), window.process_name, window.window_title,
                       window.window_class, window.screen_area))

(* C23: degenerate screen areas are dropped. A ScreenArea rule whose       *)
(* rectangle has width <= 0 or height <= 0 produces no compiled rule, so   *)
(* it never makes its profile match, even when the context reports a       *)
(* screen area with the same x, y, width and height; a rule with positive  *)
(* width and height matches exactly when all four coordinates are equal.   *)
C23_DegenerateAreasDropped ==
    \A k \in Positions : \A rule \in AreaRules(k) :
       IF Degenerate(Unwrap(rule.screen_area))
       THEN /\ parse_rule(rule) = None
            /\ ~MatchesAlone(rule)
            /\ \A c \in 1..Len(call) :
                  (ReturnsPosition(call[c], k) /\ store.profiles[k].activation_rules = <<rule>>)
                      => Unwrap(call[c]).match_kind # "ScreenArea"
       ELSE MatchesAlone(rule) <=> window.screen_area = rule.screen_area

----------------------------------------------------------------------------
(* Vocabulary of the claims about the action runner *)

ExecuteResult == Unwrap(runner.ret)

Children(id) ==
    IF id \in DOMAIN runner.actions
    THEN {runner.actions[id].payload.actions[k] : k \in DOMAIN runner.actions[id].payload.actions}
    ELSE {}

(* the ids that executing id can lead to, over at most n references *)
RECURSIVE Reaches(_, _)
Reaches(id, n) ==
    IF n = 0 THEN {} ELSE Children(id) \cup UNION {Reaches(child, n - 1) : child \in Children(id)}

Descendants(id) == Reaches(id, MaxActions + 1)

(* a composite that contains itself directly or through other composites *)
ContainsItself(id) == id \in Descendants(id)

IsCycleError(result) ==
    ~result.ok /\ Unwrap(result.message)[1] = "cycle detected while executing action "

(* how often executing id executes target when nothing fails; fuel bounds   *)
(* the unfolding                                                           *)
RECURSIVE Executions(_, _, _)
RECURSIVE SumOver(_, _, _)
SumOver(ids, target, fuel) ==
    IF ids = <<>> THEN 0
    ELSE Executions(Head(ids), target, fuel) + SumOver(Tail(ids), target, fuel)

Executions(id, target, fuel) ==
    IF fuel = 0 \/ id \notin DOMAIN runner.actions THEN 0
    ELSE (IF id = target THEN 1 ELSE 0)
             + SumOver(runner.actions[id].payload.actions, target, fuel - 1)

Occurrences(seq, x) == Cardinality({k \in DOMAIN seq : seq[k] = x})

RunDone == runner.phase = "done"

NothingElseFails ==
    /\ MissingActionId \notin Descendants(1)
    /\ \A id \in {1} \cup (Descendants(1) \cap ActionIds) :
          runner.actions[id].payload # LaunchProgram(FALSE)

SkippedChildren == {id \in ActionIds : runner.actions[id].payload = Custom /\ Occurrences(runner.executed, id) > 0}

Names(message, id) ==
    \E k \in 1..(Len(message) - 1) : message[k] = "action-" /\ message[k + 1] = ToString(id)

(* the position of the first reference of the top-level composite that the *)
(* provider does not hold, 0 when there is none                            *)
FirstMissing ==
    LET children == runner.actions[1].payload.actions
        missing == {k \in DOMAIN children : children[k] = MissingActionId}
    IN IF missing = {} THEN 0 ELSE CHOOSE k \in missing : \A j \in missing : k <= j

(* what the children before position k can execute *)
ExecutableBefore(k) ==
    LET children == runner.actions[1].payload.actions
    IN {1} \cup UNION {{children[j]} \cup Descendants(children[j]) : j \in 1..(k - 1)}

(* C25: each call of run records exactly one ActionEventPayload in the      *)
(* action-events channel, carrying the id of the top-level action; its      *)
(* status is Skipped with a message naming the skipped children when any    *)
(* child was skipped in a run that went through, and Failure, with run      *)
(* returning an error, when a referenced child does not exist; children     *)
(* after a missing child are not executed.                                  *)
C25_OneOutcomeEvent ==
    RunDone =>
        /\ Len(runner.channel) = 1
        /\ runner.channel[1].id = runner.actions[1].id
        /\ ExecuteResult.ok /\ SkippedChildren # {} =>
              /\ runner.channel[1].status = "Skipped"
              /\ \A id \in SkippedChildren : Names(Unwrap(runner.channel[1].message), id)
        /\ FirstMissing > 0 =>
              /\ runner.channel[1].status = "Failure"
              /\ ~Unwrap(runner.result).ok
              /\ \A k \in DOMAIN runner.executed : runner.executed[k] \in ExecutableBefore(FirstMissing)

----------------------------------------------------------------------------
(* Vocabulary of the claim about validate_profile *)

ChildMenus(id) ==
    IF id \in DOMAIN validation.menus
    THEN {Unwrap(validation.menus[id].slices[k].child_menu) :
             k \in {j \in DOMAIN validation.menus[id].slices :
                       IsSome(validation.menus[id].slices[j].child_menu)}}
    ELSE {}

(* a chain of child_menu links that starts at id and contains n menus *)
RECURSIVE ChainOf(_, _)
ChainOf(id, n) == n <= 1 \/ \E child \in ChildMenus(id) : ChainOf(child, n - 1)

Validated == validation.result # None

Rejects(kind) ==
    /\ ~Unwrap(validation.result).ok
    /\ \E k \in DOMAIN Unwrap(validation.result).errors :
          Unwrap(validation.result).errors[k].error = kind

(* C26: validate_profile terminates for every menu graph; whenever it       *)
(* returns Ok every chain of child_menu links that starts at the root menu  *)
(* contains at most 3 menus; a profile in which some menu is reachable at   *)
(* nesting depth greater than 3, including through a cyclic child_menu      *)
(* chain, is rejected with MenuDepthExceeded.                               *)
C26_MenuDepthLimit ==
    /\ <>Validated
    /\ [](Validated /\ Unwrap(validation.result).ok =>
             ~ChainOf(Unwrap(validation.profile).root_menu, MAX_MENU_DEPTH + 1))
    /\ [](Validated /\ Unwrap(validation.profile).root_menu \in MenuIds
                    /\ ChainOf(Unwrap(validation.profile).root_menu, MAX_MENU_DEPTH + 1)
             => Rejects("MenuDepthExceeded"))

----------------------------------------------------------------------------
(* the instant a committed snapshot was stamped with *)
SelectedAt(snapshot) == Unwrap(snapshot.selected_at).rfc3339

(* C27: in every interleaving of timer ticks and resolve_now calls the      *)
(* selected_at values of successively committed current snapshots never     *)
(* decrease, and no history entry is overwritten with a timestamp earlier   *)
(* than the one it held.                                                    *)
C27_MonotonicSelectionTime ==
    [][/\ IsSome(current) /\ IsSome(current') /\ current' # current =>
              SelectedAt(Unwrap(current')) >= SelectedAt(Unwrap(current))
       /\ \A i \in DOMAIN history : i \in DOMAIN history' /\ history'[i] >= history[i]]_vars

(* C28: when a timer tick and a resolve_now call both commit a change,      *)
(* their change events are published in the order of their commits, so      *)
(* once all in-flight evaluations have finished the payload of the most     *)
(* recently published event equals the router's current value.              *)
C28_EventOrderFollowsCommits ==
    Quiescent /\ events # <<>> => events[Len(events)] = current

----------------------------------------------------------------------------
(* C29: starting from a normalized store, after any sequence of             *)
(* create_profile, save_profile, delete_profile and activate_profile        *)
(* commands, active_profile_id is None or the id of a profile present in    *)
(* the store, it is None only when the store holds no profile, and          *)
(* deleting the active profile moves it to the first remaining profile.     *)
C29_ActiveProfileIdValid ==
    /\ [](/\ IsSome(store.active_profile_id) => Unwrap(store.active_profile_id) \in ProfileIds
          /\ store.active_profile_id = None => store.profiles = <<>>)
    /\ [][Len(store'.profiles) < Len(store.profiles)
            /\ (\A k \in 1..Len(store'.profiles) :
                   Some(store'.profiles[k].id) # store.active_profile_id)
          => store'.active_profile_id =
                 IF store'.profiles = <<>> THEN None ELSE Some(store'.profiles[1].id)]_vars

(* the active first profile of a store of two was deleted while the file   *)
(* could not be written, and the second profile is the active one          *)
C29_Witness ==
    /\ disk.store = ProfileStore(<<Profile(1, TRUE, <<>>), Profile(2, TRUE, <<>>)>>, Some(1))
    /\ ~disk.writable
    /\ store = ProfileStore(<<Profile(2, TRUE, <<>>)>>, Some(2))

(* C30: whenever create_profile, save_profile, delete_profile or            *)
(* activate_profile returns an error (unknown id, validation failure,       *)
(* pending recovery, or a failure to persist the store), the in-memory      *)
(* store is identical to the store before the command, so the in-memory     *)
(* store never diverges from the last successfully persisted store.         *)
C30_FailedCommandsChangeNothing ==
    /\ [][IsSome(reply'.error) => store' = store]_vars
    /\ [](store = disk.store)

====
